---------------------------- MODULE Spec2Model ----------------------------
(***************************************************************************)
(* Autobatching of torch-sim: the memory-estimation probes, the            *)
(* ChunkingAutoBatcher and the HotswappingAutoBatcher of                   *)
(* src/torchsim/autobatching.py.                                           *)
(*                                                                         *)
(* A single-system state is a record [sys, n_atoms]: sys stands for the    *)
(* system's content (positions, species, cell), n_atoms is its atom count. *)
(* A batched state is the sequence of its systems in segment order.  The   *)
(* metric is "n_atoms".  A budget (max_memory_scaler) is kept in fifths of *)
(* a metric unit, so that the safety factor 0.8 = 4/5 is exact.            *)
(***************************************************************************)
EXTENDS Integers, Sequences, FiniteSets, TLC

\* ------------------------------------------------------------------ bounds
MaxSystems == 3
MaxAtoms == 3
MaxBudget == 4
MaxAtomsToTry == 3
MaxCeiling == 10
MaxNSteps == 2
MaxStepsCeiling == 3
MaxStepsBetweenSwaps == 2
MaxStep == 4
MaxDensity == 2
MaxInputBatches == 2
MaxSliceStep == 2

\* the safety factor 0.8 of _first_batch, as the fraction SafetyNum / SafetyDen
SafetyNum == 4
SafetyDen == 5

VARIABLES
    states,                 \* the caller's input list of single-system states
    arg_max_memory_scaler,  \* the max_memory_scaler argument, 0 for None
    memory_scales_with,     \* the memory_scales_with argument
    number_density,         \* the number density of the input systems
    \* HotswappingAutoBatcher
    states_iterator,        \* self.states_iterator: the states not yet taken
    max_memory_scaler,      \* self.max_memory_scaler in fifths, 0 for None
    current_scalers,        \* self.current_scalers
    current_idx,            \* self.current_idx
    iterator_idx,           \* self.iterator_idx
    completed_idx_og_order, \* self.completed_idx_og_order
    hs_pc,                  \* "off", "new", "unstarted", "running", "done", "restored", "error"
    hs_ret,                 \* what the last next_batch call returned
    hs_args,                \* the arguments of the last next_batch call
    estimates,              \* what the estimate_max_memory_scaler calls returned
    all_completed,          \* the caller's list of all completed states
    hs_restored,            \* result of restore_original_order
    hs_error,               \* the exception that ended the run, "" for none
    \* ChunkingAutoBatcher (its budget is kept in whole metric units)
    ck_max_memory_scaler,   \* self.max_memory_scaler
    index_bins,             \* self.index_bins: per bin, the original indices
    batched_states,         \* self.batched_states: per bin, the states
    current_state_bin,      \* self.current_state_bin
    ck_pc,                  \* "off", "new", "ready", "restored", "error"
    ck_ret,                 \* what the last next_batch call returned
    ck_batches,             \* the caller's list of the batches returned
    ck_restored,            \* result of restore_original_order
    ck_error,               \* the exception raised, type "" for none
    \* estimate_max_memory_scaler(model, states, metrics of states, pr_max_atoms)
    pr_max_atoms,           \* the max_atoms argument
    pr_pc,                  \* "off", "new", "min", "max", "returned", "raised"
    pr_fib,                 \* fib of the determine_max_batch_size run under way
    pr_i,                   \* its loop index i
    pr_probed,              \* the forward passes run so far, in order
    pr_oom,                 \* per finished run, the position of its out-of-memory probe
    pr_batch_sizes,         \* per finished run, the value it returned
    pr_result,              \* the value estimate_max_memory_scaler returned
    pr_error,               \* the exception that left estimate_max_memory_scaler
    \* the runners static, integrate and optimize
    rn_pc,                  \* "off", "static", "integrate", "optimize", "returned", "error"
    runner,                 \* the module of optimize: "torchsim", "torch_sim", "" for none
    autobatcher,            \* the autobatcher argument: "False", "True", "instance", "" for no runner
    n_steps,                \* integrate's n_steps
    max_steps,              \* optimize's max_steps
    steps_between_swaps,    \* optimize's steps_between_swaps
    rn_step,                \* optimize's local step
    n_updates,              \* the number of update_fn calls optimize has made
    rn_state,               \* optimize's local state
    rn_convergence_tensor,  \* optimize's local convergence_tensor, <<>> for None
    final_states,           \* integrate's and static's local final_states
    all_props,              \* static's local all_props
    rn_result,              \* what the runner returned
    swap_attempts,          \* per system in flight, the swaps it has been through
    \* the state operations concatenate_states, split and index normalization
    st_pc,                  \* "off", "new", "concatenated", "split", "normalized"
    st_states,              \* the list of states handed to concatenate_states
    st_concatenated,        \* what concatenate_states returned
    st_split,               \* what split returned for it
    st_n_batches,           \* the n_batches argument of the index normalization
    st_idx,                 \* its index argument
    st_indices              \* what it returned or raised

hs_vars == <<states_iterator, max_memory_scaler, current_scalers, current_idx,
             iterator_idx, completed_idx_og_order, hs_pc, hs_ret, hs_args,
             estimates, all_completed, hs_restored, hs_error>>
in_vars == <<states, arg_max_memory_scaler, memory_scales_with, number_density>>
ck_vars == <<ck_max_memory_scaler, index_bins, batched_states, current_state_bin,
             ck_pc, ck_ret, ck_batches, ck_restored, ck_error>>
pr_vars == <<pr_max_atoms, pr_pc, pr_fib, pr_i, pr_probed, pr_oom, pr_batch_sizes,
             pr_result, pr_error>>
rn_vars == <<rn_pc, autobatcher, n_steps, max_steps, steps_between_swaps, rn_step,
             n_updates, rn_state, rn_convergence_tensor, final_states, all_props,
             rn_result, runner, swap_attempts>>
st_vars == <<st_pc, st_states, st_concatenated, st_split, st_n_batches, st_idx,
             st_indices>>
vars == <<in_vars, hs_vars, ck_vars, pr_vars, rn_vars, st_vars>>

\* --------------------------------------------------------- python helpers
RECURSIVE SumSeq(_)
SumSeq(s) == IF s = <<>> THEN 0 ELSE Head(s) + SumSeq(Tail(s))

RECURSIVE Flatten(_)
Flatten(ss) == IF ss = <<>> THEN <<>> ELSE Head(ss) \o Flatten(Tail(ss))

MinOf(S) == CHOOSE x \in S : \A y \in S : x <= y
MaxOf(S) == CHOOSE x \in S : \A y \in S : x >= y
Range(s) == {s[i] : i \in 1..Len(s)}

\* seq[j] of a python list, j counted from 0, negative j counted from the end
PyIndex(s, j) == IF j < 0 THEN s[Len(s) + j + 1] ELSE s[j + 1]

\* list.pop(j): the list without its element at 0-based position j
PyPop(s, j) == SubSeq(s, 1, j) \o SubSeq(s, j + 2, Len(s))

\* insertion of x into a list sorted in descending order
RECURSIVE InsertDesc(_, _)
InsertDesc(x, s) ==
    IF s = <<>> THEN <<x>>
    ELSE IF x > Head(s) THEN <<x>> \o s
    ELSE <<Head(s)>> \o InsertDesc(x, Tail(s))

\* list.sort(reverse=True) of a list of integers
RECURSIVE SortReverse(_)
SortReverse(s) == IF s = <<>> THEN <<>> ELSE InsertDesc(Head(s), SortReverse(Tail(s)))

\* sorted(pairs, key=lambda x: x[0]): stable, ascending in the first component
RECURSIVE InsertByKey(_, _)
InsertByKey(p, s) ==
    IF s = <<>> THEN <<p>>
    ELSE IF p[1] < Head(s)[1] THEN <<p>> \o s
    ELSE <<Head(s)>> \o InsertByKey(p, Tail(s))

RECURSIVE SortedByKey(_)
SortedByKey(s) ==
    IF s = <<>> THEN <<>>
    ELSE InsertByKey(s[Len(s)], SortedByKey(SubSeq(s, 1, Len(s) - 1)))

\* zip(a, b, strict=False): pairs up to the shorter list
Zip(a, b) == [i \in 1..(IF Len(a) < Len(b) THEN Len(a) ELSE Len(b)) |-> <<a[i], b[i]>>]

\* torch.where(convergence_tensor)[0].tolist(): 0-based positions of True, ascending
RECURSIVE WhereTrueFrom(_, _)
WhereTrueFrom(t, i) ==
    IF i > Len(t) THEN <<>>
    ELSE (IF t[i] THEN <<i - 1>> ELSE <<>>) \o WhereTrueFrom(t, i + 1)

WhereTrue(t) == WhereTrueFrom(t, 1)

\* ----------------------------------------------------- state operations
\* state.n_batches
NBatches(state) == Len(state)

\* concatenate_states(list of states): systems laid out in input order
ConcatenateStates(state_list) == Flatten(state_list)

\* split_state(state): one single-system state per system, in segment order
SplitState(state) == [i \in 1..Len(state) |-> <<state[i]>>]

\* pop_states(state, pop_indices): the remainder as one batch, the removed
\* systems as single-system states in the order of pop_indices
PopStates(state, pop_indices) ==
    [remaining |-> LET keep == {i \in 1..Len(state) : (i - 1) \notin Range(pop_indices)}
                       F[i \in 0..Len(state)] ==
                           IF i = 0 THEN <<>>
                           ELSE IF i \in keep THEN Append(F[i - 1], state[i]) ELSE F[i - 1]
                   IN F[Len(state)],
     popped |-> [k \in 1..Len(pop_indices) |-> <<state[pop_indices[k] + 1]>>]]

\* calculate_memory_scaler(state_slice, memory_scales_with): the atom count
\* under "n_atoms", an int; the atom count times the number density under
\* "n_atoms_x_density", a float; the systems of a run share one number
\* density, a whole number here
CalculateMemoryScaler(state_slice) ==
    IF memory_scales_with = "n_atoms_x_density"
    THEN state_slice[1].n_atoms * number_density
    ELSE state_slice[1].n_atoms

\* a metric amount in the unit budgets are kept in
Fifths(x) == SafetyDen * x


\* ------------------------------------------------------ memory estimation
\* the list fib of determine_max_batch_size: [1, 2] grown while fib[-1] < max_atoms
RECURSIVE FibUpTo(_, _)
FibUpTo(fib, max_atoms) ==
    IF fib[Len(fib)] < max_atoms
    THEN FibUpTo(Append(fib, fib[Len(fib)] + fib[Len(fib) - 1]), max_atoms)
    ELSE fib

Fib(max_atoms) == FibUpTo(<<1, 2>>, max_atoms)

\* The accelerator's answer to a run of probes: the 0-based position in fib of
\* the first probe that raises "CUDA out of memory", Len(fib) when none does.
ProbeOutcomes(max_atoms) == 0..Len(Fib(max_atoms))

\* determine_max_batch_size that returns fib[-1] when no probe ran out of memory
DetermineMaxBatchSizeLast(max_atoms, oom) ==
    LET fib == Fib(max_atoms)
    IN IF oom < Len(fib) THEN PyIndex(fib, oom - 2) ELSE PyIndex(fib, -1)

\* determine_max_batch_size(state, model, max_atoms), the first out-of-memory
\* probe being the one at position oom
DetermineMaxBatchSize(max_atoms, oom) ==
    LET fib == Fib(max_atoms)
    IN IF oom < Len(fib) THEN PyIndex(fib, oom - 2) ELSE PyIndex(fib, -2)

\* estimate_max_memory_scaler that goes by the state of smallest metric alone
EstimateMinStateOnly(metric_values, max_atoms, oom_min, oom_max) ==
    MinOf(Range(metric_values)) * DetermineMaxBatchSize(max_atoms, oom_min)

\* estimate_max_memory_scaler(model, state_list, metric_values, max_atoms);
\* oom_min and oom_max are the accelerator's answers for the two probed states
EstimateMaxMemoryScaler(metric_values, max_atoms, oom_min, oom_max) ==
    LET min_metric == MinOf(Range(metric_values))
        max_metric == MaxOf(Range(metric_values))
        min_state_max_batches == DetermineMaxBatchSize(max_atoms, oom_min)
        max_state_max_batches == DetermineMaxBatchSize(max_atoms, oom_max)
    IN MinOf({min_state_max_batches * min_metric, max_state_max_batches * max_metric})

\* metric_values.argmin(): the 0-based position of the first smallest value
ArgMin(metric_values) ==
    (CHOOSE i \in 1..Len(metric_values) :
        /\ \A j \in 1..Len(metric_values) : metric_values[j] >= metric_values[i]
        /\ \A j \in 1..(i - 1) : metric_values[j] > metric_values[i]) - 1

\* metric_values.argmax(): the 0-based position of the first largest value
ArgMax(metric_values) ==
    (CHOOSE i \in 1..Len(metric_values) :
        /\ \A j \in 1..Len(metric_values) : metric_values[j] <= metric_values[i]
        /\ \A j \in 1..(i - 1) : metric_values[j] < metric_values[i]) - 1

\* what a forward pass of measure_model_memory_forward can raise besides
\* RuntimeError("CUDA out of memory ..."): a RuntimeError with another message,
\* an exception of another class
OutOfMemory == "RuntimeError: CUDA out of memory"
OtherErrors == {"RuntimeError: device-side assert", "ValueError"}

\* estimate_max_memory_scaler(model, states, metric_values, pr_max_atoms) up to
\* its first determine_max_batch_size call, whose fib list is built
EstimateBegin ==
    /\ pr_pc = "new"
    /\ pr_pc' = "min"
    /\ pr_fib' = Fib(pr_max_atoms)
    /\ pr_i' = 0
    /\ UNCHANGED <<pr_max_atoms, pr_probed, pr_oom, pr_batch_sizes, pr_result, pr_error,
                   in_vars, hs_vars, ck_vars, rn_vars, st_vars>>

\* the forward pass of loop index pr_i: which of the two determine_max_batch_size
\* runs it belongs to, the position in states of the state replicated, the
\* number of replicas, and how it ended
ProbeRecord(outcome) ==
    LET metric_values == [i \in 1..Len(states) |-> CalculateMemoryScaler(states[i])]
    IN [run |-> Len(pr_oom) + 1,
        state |-> IF pr_pc = "min" THEN ArgMin(metric_values) ELSE ArgMax(metric_values),
        n_batches |-> pr_fib[pr_i + 1],
        outcome |-> outcome]

\* measure_model_memory_forward(concat_state, model) returns
MeasureSucceeds ==
    /\ pr_pc \in {"min", "max"}
    /\ pr_i < Len(pr_fib)
    /\ pr_probed' = Append(pr_probed, ProbeRecord("ok"))
    /\ pr_i' = pr_i + 1
    /\ UNCHANGED <<pr_max_atoms, pr_pc, pr_fib, pr_oom, pr_batch_sizes, pr_result,
                   pr_error, in_vars, hs_vars, ck_vars, rn_vars, st_vars>>

\* determine_max_batch_size returns, its first out-of-memory probe being the
\* one at position oom (Len(fib) for none): the second run starts, or
\* estimate_max_memory_scaler returns
DetermineReturns(oom) ==
    LET metric_values == [i \in 1..Len(states) |-> CalculateMemoryScaler(states[i])]
    IN /\ pr_oom' = Append(pr_oom, oom)
       /\ pr_batch_sizes' = Append(pr_batch_sizes, DetermineMaxBatchSize(pr_max_atoms, oom))
       /\ IF pr_pc = "min"
          THEN /\ pr_pc' = "max"
               /\ pr_fib' = Fib(pr_max_atoms)
               /\ pr_i' = 0
               /\ pr_result' = pr_result
          ELSE /\ pr_pc' = "returned"
               /\ pr_result' = EstimateMaxMemoryScaler(metric_values, pr_max_atoms,
                                                        pr_oom[1], oom)
               /\ UNCHANGED <<pr_fib, pr_i>>
       /\ UNCHANGED <<pr_max_atoms, pr_error, in_vars, hs_vars, ck_vars, rn_vars,
                   st_vars>>

\* the forward pass raises RuntimeError("CUDA out of memory ..."): return fib[i - 2]
MeasureOutOfMemory ==
    /\ pr_pc \in {"min", "max"}
    /\ pr_i < Len(pr_fib)
    /\ pr_probed' = Append(pr_probed, ProbeRecord(OutOfMemory))
    /\ DetermineReturns(pr_i)

\* an except clause that takes every error of the forward pass for out of memory
MeasureSwallowsOther ==
    /\ pr_pc \in {"min", "max"}
    /\ pr_i < Len(pr_fib)
    /\ \E error \in OtherErrors : pr_probed' = Append(pr_probed, ProbeRecord(error))
    /\ DetermineReturns(pr_i)

\* the forward pass raises anything else: it leaves determine_max_batch_size
\* and estimate_max_memory_scaler
MeasureRaisesOther ==
    /\ pr_pc \in {"min", "max"}
    /\ pr_i < Len(pr_fib)
    /\ \E error \in OtherErrors :
          /\ pr_probed' = Append(pr_probed, ProbeRecord(error))
          /\ pr_error' = error
    /\ pr_pc' = "raised"
    /\ UNCHANGED <<pr_max_atoms, pr_fib, pr_i, pr_oom, pr_batch_sizes, pr_result,
                   in_vars, hs_vars, ck_vars, rn_vars, st_vars>>

\* the loop has run every element of fib: return fib[-2]
ProbesExhausted ==
    /\ pr_pc \in {"min", "max"}
    /\ pr_i = Len(pr_fib)
    /\ pr_probed' = pr_probed
    /\ DetermineReturns(Len(pr_fib))

\* list.sort() of a list of integers: the descending sort read backwards
Reverse(s) == [i \in 1..Len(s) |-> s[Len(s) + 1 - i]]

\* ------------------------------------------------- HotswappingAutoBatcher
\* _get_next_states: the loop over self.states_iterator.  acc carries the
\* loop's locals and the fields it writes; raised is the ValueError.
RECURSIVE GetNextStatesLoop(_, _, _, _)
GetNextStatesLoop(it, acc, scalers, budget) ==
    IF it = <<>> THEN [acc EXCEPT !.iterator = <<>>]
    ELSE LET state == Head(it)
             metric == CalculateMemoryScaler(state)
         IN IF Fifths(metric) > budget
            THEN [acc EXCEPT !.raised = TRUE, !.iterator = Tail(it)]
            ELSE IF Fifths(SumSeq(scalers) + SumSeq(acc.new_metrics) + metric) > budget
            THEN [acc EXCEPT !.iterator = it]
            ELSE GetNextStatesLoop(
                     Tail(it),
                     [acc EXCEPT !.new_metrics = Append(@, metric),
                                 !.new_idx = Append(@, acc.iterator_idx),
                                 !.new_states = Append(@, state),
                                 !.iterator_idx = @ + 1],
                     scalers, budget)

\* _get_next_states that admits nothing: it stops at the first queued state
GetNextStatesNone(it, scalers, budget, it_idx) ==
    [new_metrics |-> <<>>, new_idx |-> <<>>, new_states |-> <<>>,
     iterator_idx |-> it_idx, raised |-> FALSE, iterator |-> it]

\* _get_next_states that does not put the state that did not fit back
GetNextStatesNoPutBack(it, scalers, budget, it_idx) ==
    LET r == GetNextStatesLoop(it,
                 [new_metrics |-> <<>>, new_idx |-> <<>>, new_states |-> <<>>,
                  iterator_idx |-> it_idx, raised |-> FALSE, iterator |-> it],
                 scalers, budget)
    IN IF ~r.raised /\ r.iterator # <<>>
       THEN [r EXCEPT !.iterator = Tail(@)]
       ELSE r

GetNextStates(it, scalers, budget, it_idx) ==
    GetNextStatesLoop(it,
                      [new_metrics |-> <<>>, new_idx |-> <<>>, new_states |-> <<>>,
                       iterator_idx |-> it_idx, raised |-> FALSE, iterator |-> it],
                      scalers, budget)

\* _delete_old_states(completed_idx): the three lists after the pops
RECURSIVE DeleteLoop(_, _)
DeleteLoop(completed_idx, acc) ==
    IF completed_idx = <<>> THEN acc
    ELSE LET idx == Head(completed_idx)
             og_idx == PyIndex(acc.current_idx, idx)
         IN DeleteLoop(Tail(completed_idx),
                       [current_idx |-> PyPop(acc.current_idx, idx),
                        current_scalers |-> PyPop(acc.current_scalers, idx),
                        completed_idx_og_order |-> Append(acc.completed_idx_og_order, og_idx)])

\* _delete_old_states that records the original indices by ascending position
DeleteOldStatesAscending(completed_idx, idx, scalers, completed) ==
    LET del == DeleteLoop(SortReverse(completed_idx),
                          [current_idx |-> idx, current_scalers |-> scalers,
                           completed_idx_og_order |-> <<>>])
    IN [del EXCEPT !.completed_idx_og_order = completed \o Reverse(@)]

\* _delete_old_states that records the completed indices and pops nothing
DeleteOldStatesKeeps(completed_idx, idx, scalers, completed) ==
    LET del == DeleteLoop(SortReverse(completed_idx),
                          [current_idx |-> idx, current_scalers |-> scalers,
                           completed_idx_og_order |-> completed])
    IN [del EXCEPT !.current_idx = idx, !.current_scalers = scalers]

\* _delete_old_states that pops the completed systems and records none of them
DeleteOldStatesUnrecorded(completed_idx, idx, scalers, completed) ==
    LET del == DeleteLoop(SortReverse(completed_idx),
                          [current_idx |-> idx, current_scalers |-> scalers,
                           completed_idx_og_order |-> completed])
    IN [del EXCEPT !.completed_idx_og_order = completed]

DeleteOldStates(completed_idx, idx, scalers, completed) ==
    DeleteLoop(SortReverse(completed_idx),
               [current_idx |-> idx, current_scalers |-> scalers,
                completed_idx_og_order |-> completed])

\* a return value of next_batch: indices is the third component of the tuple,
\* which is returned when return_indices is set, has_indices whether the call
\* has such a component to return
NoReturn == [is_none |-> FALSE, next_batch |-> <<>>, completed_states |-> <<>>,
             has_indices |-> FALSE, indices |-> <<>>]
NoArgs == [is_none |-> FALSE, in_turn |-> TRUE, updated_state |-> <<>>,
           convergence_tensor |-> <<>>]

\* the arguments of a next_batch(updated_state, convergence_tensor) call; the
\* call is in turn when a batch is in flight and updated_state is that batch
CallArgs(updated_state, convergence_tensor) ==
    [is_none |-> FALSE,
     in_turn |-> hs_pc = "running" /\ updated_state = hs_ret.next_batch,
     updated_state |-> updated_state, convergence_tensor |-> convergence_tensor]
NotRestored == [called |-> FALSE, raised |-> FALSE, out |-> <<>>, given |-> <<>>]

\* the outcome of a restore_original_order call together with the list given to it
WithGiven(res, given) ==
    [called |-> res.called, raised |-> res.raised, out |-> res.out, given |-> given]

\* HotswappingAutoBatcher(states, model, "n_atoms", max_memory_scaler)
HsConstruct ==
    /\ hs_pc = "new"
    /\ states_iterator' = states
    /\ max_memory_scaler' = Fifths(arg_max_memory_scaler)
    /\ current_scalers' = <<>>
    /\ current_idx' = <<>>
    /\ iterator_idx' = 0
    /\ completed_idx_og_order' = <<>>
    /\ hs_pc' = "unstarted"
    /\ UNCHANGED <<hs_ret, hs_args, estimates, all_completed, hs_restored, hs_error,
                   in_vars, pr_vars, ck_vars, rn_vars, st_vars>>

\* _first_batch after the first state has been taken; oom is the accelerator's
\* answers to the four determine_max_batch_size runs of the two estimates
FirstBatchBody(oom) ==
    LET first_state == Head(states_iterator)
        first_metric == CalculateMemoryScaler(first_state)
        scalers1 == current_scalers \o <<first_metric>>
        idx1 == current_idx \o <<0>>
        has_max_metric == max_memory_scaler # 0
        estimate1 == EstimateMaxMemoryScaler(<<first_metric>>, MaxAtomsToTry,
                                             oom[1], oom[2])
        budget1 == IF has_max_metric THEN max_memory_scaler
                   ELSE SafetyNum * estimate1
        r == GetNextStates(Tail(states_iterator), scalers1, budget1, iterator_idx + 1)
        scalers2 == scalers1 \o r.new_metrics
        estimate2 == EstimateMaxMemoryScaler(scalers2, MaxAtomsToTry, oom[3], oom[4])
        budget2 == IF has_max_metric THEN budget1 ELSE Fifths(estimate2)
        \* the estimate of integer metrics is an int64 tensor, and *= 0.8 on it
        \* raises RuntimeError (a float result cannot be cast to Long in place)
        int_estimate == ~has_max_metric /\ memory_scales_with = "n_atoms"
    IN /\ completed_idx_og_order' = completed_idx_og_order
       /\ hs_args' = [is_none |-> TRUE, in_turn |-> TRUE, updated_state |-> <<>>,
                       convergence_tensor |-> <<>>]
       /\ UNCHANGED <<all_completed, hs_restored>>
       /\ IF int_estimate
          THEN /\ states_iterator' = Tail(states_iterator)
               /\ iterator_idx' = iterator_idx + 1
          ELSE /\ states_iterator' = r.iterator
               /\ iterator_idx' = r.iterator_idx
       /\ IF int_estimate
          THEN /\ current_scalers' = scalers1
               /\ current_idx' = idx1
               /\ max_memory_scaler' = Fifths(estimate1)
               /\ estimates' = Append(estimates, estimate1)
               /\ hs_pc' = "error"
               /\ hs_error' = "RuntimeError"
               /\ hs_ret' = hs_ret
          ELSE IF r.raised
          THEN /\ current_scalers' = scalers1
               /\ current_idx' = idx1
               /\ max_memory_scaler' = budget1
               /\ estimates' = IF has_max_metric THEN estimates
                                ELSE Append(estimates, estimate1)
               /\ hs_pc' = "error"
               /\ hs_error' = "ValueError"
               /\ hs_ret' = hs_ret
          ELSE /\ current_scalers' = scalers2
               /\ current_idx' = idx1 \o r.new_idx
               /\ max_memory_scaler' = budget2
               /\ estimates' = IF has_max_metric THEN estimates
                                ELSE estimates \o <<estimate1, estimate2>>
               /\ hs_pc' = "running"
               /\ hs_error' = hs_error
               /\ hs_ret' = [is_none |-> FALSE,
                             next_batch |-> ConcatenateStates(<<first_state>> \o r.new_states),
                             completed_states |-> <<>>,
                             has_indices |-> FALSE, indices |-> <<>>]

\* next_batch(None, None): the first batch
HsFirstBatch ==
    /\ hs_pc = "unstarted"
    /\ iterator_idx = 0
    /\ states_iterator # <<>>
    /\ IF max_memory_scaler # 0
       THEN FirstBatchBody(<<0, 0, 0, 0>>)
       ELSE \E oom \in [1..4 -> ProbeOutcomes(MaxAtomsToTry)] : FirstBatchBody(oom)
    /\ UNCHANGED <<in_vars, pr_vars, ck_vars, rn_vars, st_vars>>

\* next_batch(updated_state, convergence_tensor) past its asserts
NextBatchBody(updated_state, convergence_tensor) ==
    LET completed_idx == SortReverse(WhereTrue(convergence_tensor))
        pop == PopStates(updated_state, completed_idx)
        del == DeleteOldStates(completed_idx, current_idx, current_scalers,
                               completed_idx_og_order)
        r == GetNextStates(states_iterator, del.current_scalers, max_memory_scaler,
                           iterator_idx)
        idx2 == del.current_idx \o r.new_idx
        next_states == IF NBatches(pop.remaining) > 0
                       THEN <<pop.remaining>> \o r.new_states
                       ELSE r.new_states
    IN /\ states_iterator' = r.iterator
       /\ iterator_idx' = r.iterator_idx
       /\ completed_idx_og_order' = del.completed_idx_og_order
       /\ hs_args' = CallArgs(updated_state, convergence_tensor)
       /\ UNCHANGED <<max_memory_scaler, estimates, hs_restored>>
       /\ IF r.raised
          THEN /\ current_scalers' = del.current_scalers
               /\ current_idx' = del.current_idx
               /\ hs_pc' = "error"
               /\ hs_error' = IF max_memory_scaler = 0 THEN "TypeError" ELSE "ValueError"
               /\ UNCHANGED <<hs_ret, all_completed>>
          ELSE /\ current_scalers' = del.current_scalers \o r.new_metrics
               /\ current_idx' = idx2
               /\ hs_error' = hs_error
               /\ all_completed' = all_completed \o pop.popped
               /\ IF idx2 = <<>>
                  THEN /\ hs_pc' = "done"
                       /\ hs_ret' = [is_none |-> TRUE, next_batch |-> <<>>,
                                     completed_states |-> pop.popped,
                                     has_indices |-> TRUE, indices |-> <<>>]
                  ELSE /\ hs_pc' = "running"
                       /\ hs_ret' = [is_none |-> FALSE,
                                     next_batch |-> ConcatenateStates(next_states),
                                     completed_states |-> pop.popped,
                                     has_indices |-> TRUE, indices |-> idx2]

\* next_batch(updated_state, convergence_tensor), neither argument None: the
\* asserts, then the list.pop of _delete_old_states, which raises an IndexError
\* for a position past the end of current_idx (the largest position comes
\* first, so no pop has been done when it raises), then the body
NextBatchCall(updated_state, convergence_tensor) ==
    LET completed_idx == SortReverse(WhereTrue(convergence_tensor))
        failure == IF ~(/\ Len(convergence_tensor) = NBatches(updated_state)
                        /\ Len(current_idx) = Len(current_scalers)
                        /\ NBatches(updated_state) > 0)
                   THEN "AssertionError"
                   ELSE IF completed_idx # <<>> /\ Head(completed_idx) >= Len(current_idx)
                   THEN "IndexError"
                   ELSE ""
    IN IF failure = ""
       THEN NextBatchBody(updated_state, convergence_tensor)
       ELSE /\ hs_pc' = "error"
            /\ hs_error' = failure
            /\ hs_args' = CallArgs(updated_state, convergence_tensor)
            /\ UNCHANGED <<states_iterator, max_memory_scaler, current_scalers,
                           current_idx, iterator_idx, completed_idx_og_order,
                           hs_ret, estimates, all_completed, hs_restored>>

\* next_batch(state, convergence_tensor): the caller hands back the batch it
\* was given, updated in place, with one flag per system of it
HsNextBatchCall(convergence_tensor) ==
    /\ NextBatchCall(hs_ret.next_batch, convergence_tensor)
    /\ UNCHANGED <<in_vars, pr_vars, ck_vars, rn_vars, st_vars>>

HsNextBatch ==
    /\ hs_pc = "running"
    /\ \E convergence_tensor \in [1..NBatches(hs_ret.next_batch) -> BOOLEAN] :
          HsNextBatchCall(convergence_tensor)

\* a next_batch call whose flags report at least one system converged
HsNextBatchConverged ==
    /\ hs_pc = "running"
    /\ \E convergence_tensor \in [1..NBatches(hs_ret.next_batch) -> BOOLEAN] :
          /\ \E i \in 1..Len(convergence_tensor) : convergence_tensor[i]
          /\ HsNextBatchCall(convergence_tensor)

\* restore_original_order that pairs the states with their indices and forgets to sort
HsRestoreUnsorted(completed_states) ==
    IF Len(completed_states) # Len(completed_idx_og_order)
    THEN [called |-> TRUE, raised |-> TRUE, out |-> <<>>]
    ELSE [called |-> TRUE, raised |-> FALSE, out |-> completed_states]

\* restore_original_order without the count comparison: the zip cuts the longer
\* of the two lists short
HsRestoreTruncates(completed_states) ==
    LET indexed_states == Zip(completed_idx_og_order, completed_states)
        sorted == SortedByKey(indexed_states)
    IN [called |-> TRUE, raised |-> FALSE,
        out |-> [i \in 1..Len(sorted) |-> sorted[i][2]]]

\* HotswappingAutoBatcher.restore_original_order(completed_states)
HsRestoreOriginalOrderOf(completed_states) ==
    IF Len(completed_states) # Len(completed_idx_og_order)
    THEN [called |-> TRUE, raised |-> TRUE, out |-> <<>>]
    ELSE LET indexed_states == Zip(completed_idx_og_order, completed_states)
             sorted == SortedByKey(indexed_states)
         IN [called |-> TRUE, raised |-> FALSE,
             out |-> [i \in 1..Len(sorted) |-> sorted[i][2]]]

\* the caller restores the order of everything it collected, once the run is over
HsRestoreOriginalOrder ==
    /\ hs_pc = "done"
    /\ LET res == HsRestoreOriginalOrderOf(all_completed)
       IN /\ hs_restored' = WithGiven(res, all_completed)
          /\ hs_pc' = IF res.raised THEN "error" ELSE "restored"
          /\ hs_error' = IF res.raised THEN "ValueError" ELSE hs_error
    /\ UNCHANGED <<states_iterator, max_memory_scaler, current_scalers, current_idx,
                   iterator_idx, completed_idx_og_order, hs_ret, hs_args, estimates,
                   all_completed, in_vars, pr_vars, ck_vars, rn_vars, st_vars>>

\* the batched states a caller may hand to next_batch: the batch it was given
\* last, and the batches of the first n input systems, the empty one included
CallerStates ==
    {hs_ret.next_batch} \cup {ConcatenateStates(SubSeq(states, 1, n)) : n \in 0..Len(states)}

\* the convergence tensors a caller may hand to next_batch
CallerTensors == UNION {[1..m -> BOOLEAN] : m \in 0..MaxSystems}

\* next_batch(updated_state, convergence_tensor) with any state and any flags,
\* before or after the first batch, by a caller that has called in turn so far
HsNextBatchAnyArgs ==
    /\ hs_args.in_turn
    /\ hs_pc \in {"unstarted", "running"}
    /\ \E updated_state \in CallerStates, convergence_tensor \in CallerTensors :
          NextBatchCall(updated_state, convergence_tensor)
    /\ UNCHANGED <<in_vars, pr_vars, ck_vars, rn_vars, st_vars>>

\* the lists of completed states a caller may hand to restore_original_order:
\* what it collected, cut short or with one state too many
CallerCompleted ==
    {SubSeq(all_completed, 1, k) : k \in 0..Len(all_completed)}
        \cup {all_completed \o <<states[1]>>}

\* restore_original_order(completed_states) at any point of the run
HsRestoreAnyArgs ==
    /\ hs_args.in_turn
    /\ hs_pc \in {"running", "done"}
    /\ \E completed_states \in CallerCompleted :
          LET res == HsRestoreOriginalOrderOf(completed_states)
          IN /\ hs_restored' = WithGiven(res, completed_states)
             /\ hs_pc' = IF res.raised THEN "error" ELSE "restored"
             /\ hs_error' = IF res.raised THEN "ValueError" ELSE hs_error
    /\ UNCHANGED <<states_iterator, max_memory_scaler, current_scalers, current_idx,
                   iterator_idx, completed_idx_og_order, hs_ret, hs_args, estimates,
                   all_completed, in_vars, pr_vars, ck_vars, rn_vars, st_vars>>

\* ---------------------------------------------------- ChunkingAutoBatcher
\* sorted(range(len(seq)), key=lambda i: -seq[i]) of binpacking: the 0-based
\* positions by decreasing weight, equal weights in position order
RECURSIVE InsertByWeight(_, _, _)
InsertByWeight(i, order, weights) ==
    IF order = <<>> THEN <<i>>
    ELSE IF weights[i + 1] > weights[Head(order) + 1] THEN <<i>> \o order
    ELSE <<Head(order)>> \o InsertByWeight(i, Tail(order), weights)

RECURSIVE RevArgSortUpTo(_, _)
RevArgSortUpTo(weights, n) ==
    IF n = 0 THEN <<>>
    ELSE InsertByWeight(n - 1, RevArgSortUpTo(weights, n - 1), weights)

RevArgSort(weights) == RevArgSortUpTo(weights, Len(weights))

\* the bin an item of the given weight goes to: the fullest of the bins it fits
\* in (the first of them on a tie), 0 when there is none
FullestCandidate(weight_sum, weight, V_max) ==
    LET candidate_bins == {b \in 1..Len(weight_sum) : weight_sum[b] + weight <= V_max}
    IN IF candidate_bins = {} THEN 0
       ELSE CHOOSE b \in candidate_bins :
                \A c \in candidate_bins :
                    \/ weight_sum[c] < weight_sum[b]
                    \/ (weight_sum[c] = weight_sum[b] /\ b <= c)

\* the loop of binpacking.to_constant_volume over the items, heaviest first
RECURSIVE PackLoop(_, _, _, _, _, _)
PackLoop(order, item, weights, V_max, bins, weight_sum) ==
    IF item > Len(order) THEN bins
    ELSE LET key == order[item]
             weight == weights[key + 1]
             fit == FullestCandidate(weight_sum, weight, V_max)
             open == fit = 0 /\ item > 1
             b == IF fit # 0 THEN fit ELSE IF open THEN Len(weight_sum) + 1 ELSE 1
             bins1 == IF open THEN Append(bins, <<>>) ELSE bins
             sum1 == IF open THEN Append(weight_sum, 0) ELSE weight_sum
         IN PackLoop(order, item + 1, weights, V_max,
                     [bins1 EXCEPT ![b] = Append(@, key)],
                     [sum1 EXCEPT ![b] = @ + weight])

\* binpacking.to_constant_volume(dict(enumerate(weights)), V_max=V_max): the
\* bins, each the original indices put in it, in the order they were put in
ToConstantVolume(weights, V_max) ==
    PackLoop(RevArgSort(weights), 1, weights, V_max, <<(<<>>)>>, <<0>>)

\* self.memory_scalers
MemoryScalers(state_slices) ==
    [i \in 1..Len(state_slices) |-> CalculateMemoryScaler(state_slices[i])]

\* list.index(max(list)): 0-based position of the first largest element
IndexOfMax(s) ==
    (CHOOSE i \in 1..Len(s) :
        /\ \A j \in 1..Len(s) : s[j] <= s[i]
        /\ \A j \in 1..(i - 1) : s[j] < s[i]) - 1

\* bins packed against a budget one unit too large
IndexBinsLoose(memory_scalers, budget) == ToConstantVolume(memory_scalers, budget + 1)

\* the bins of the constructor
IndexBins(memory_scalers, budget) == ToConstantVolume(memory_scalers, budget)

\* the exception of the constructor, "" for none
OverBudgetError(max_metric_value, budget) ==
    IF max_metric_value > budget THEN "ValueError" ELSE ""

NoError == [type |-> "", index |-> 0]
NoChunkReturn == [is_none |-> FALSE, state |-> <<>>, with_indices |-> FALSE,
                  indices |-> <<>>]

\* ChunkingAutoBatcher(states, model, memory_scales_with="n_atoms",
\* max_memory_scaler=budget or the estimate)
ChunkConstructBody(budget) ==
    LET memory_scalers == MemoryScalers(states)
        max_metric_value == MaxOf(Range(memory_scalers))
        max_metric_idx == IndexOfMax(memory_scalers)
        error == OverBudgetError(max_metric_value, budget)
        bins == IndexBins(memory_scalers, budget)
    IN /\ ck_max_memory_scaler' = budget
       /\ IF error # ""
          THEN /\ ck_pc' = "error"
               /\ ck_error' = [type |-> error, index |-> max_metric_idx]
               /\ UNCHANGED <<index_bins, batched_states, current_state_bin>>
          ELSE /\ ck_pc' = "ready"
               /\ ck_error' = ck_error
               /\ index_bins' = bins
               /\ batched_states' =
                      [b \in 1..Len(bins) |->
                          [k \in 1..Len(bins[b]) |-> states[bins[b][k] + 1]]]
               /\ current_state_bin' = 0
       /\ UNCHANGED <<ck_ret, ck_batches, ck_restored, in_vars, pr_vars, hs_vars, rn_vars,
                   st_vars>>

ChunkConstruct ==
    /\ ck_pc = "new"
    /\ IF arg_max_memory_scaler # 0
       THEN ChunkConstructBody(arg_max_memory_scaler)
       ELSE \E oom_min, oom_max \in ProbeOutcomes(MaxAtomsToTry) :
                ChunkConstructBody(EstimateMaxMemoryScaler(
                    MemoryScalers(states), MaxAtomsToTry, oom_min, oom_max))

\* next_batch that hands out the bin under the cursor and leaves the cursor
ChunkNextBatchSameBin ==
    /\ ck_pc = "ready"
    /\ current_state_bin < Len(batched_states)
    /\ LET state == ConcatenateStates(batched_states[current_state_bin + 1])
       IN /\ ck_ret' = [is_none |-> FALSE, state |-> state, with_indices |-> TRUE,
                        indices |-> index_bins[current_state_bin + 1]]
          /\ ck_batches' = Append(ck_batches, state)
    /\ UNCHANGED <<current_state_bin, ck_max_memory_scaler, index_bins, batched_states,
                   ck_pc, ck_restored, ck_error, in_vars, pr_vars, hs_vars, rn_vars,
                   st_vars>>

\* ChunkingAutoBatcher.next_batch(return_indices=...); the caller keeps the
\* batches it is given
ChunkNextBatchCall(return_indices) ==
    /\ IF current_state_bin < Len(batched_states)
       THEN LET state_bin == batched_states[current_state_bin + 1]
                state == ConcatenateStates(state_bin)
            IN /\ current_state_bin' = current_state_bin + 1
               /\ ck_ret' = [is_none |-> FALSE, state |-> state,
                             with_indices |-> return_indices,
                             indices |-> IF return_indices
                                         THEN index_bins[current_state_bin' - 1 + 1]
                                         ELSE <<>>]
               /\ ck_batches' = Append(ck_batches, state)
       ELSE /\ ck_ret' = [is_none |-> TRUE, state |-> <<>>,
                          with_indices |-> return_indices, indices |-> <<>>]
            /\ UNCHANGED <<current_state_bin, ck_batches>>
    /\ UNCHANGED <<ck_max_memory_scaler, index_bins, batched_states, ck_restored,
                   ck_error>>

\* next_batch called by a caller that iterates by hand
ChunkNextBatch ==
    /\ ck_pc = "ready"
    /\ \E return_indices \in BOOLEAN : ChunkNextBatchCall(return_indices)
    /\ UNCHANGED <<ck_pc, in_vars, pr_vars, hs_vars, rn_vars, st_vars>>

\* restore_original_order that flattens the batches and forgets to sort
ChunkRestoreUnsorted(batches) ==
    LET all_states == Flatten([i \in 1..Len(batches) |-> SplitState(batches[i])])
    IN IF Len(all_states) # Len(Flatten(index_bins))
       THEN [called |-> TRUE, raised |-> TRUE, out |-> <<>>]
       ELSE [called |-> TRUE, raised |-> FALSE, out |-> all_states]

\* ChunkingAutoBatcher.restore_original_order(batched_states)
ChunkRestoreOriginalOrderOf(batches) ==
    LET state_bins == [i \in 1..Len(batches) |-> SplitState(batches[i])]
        all_states == Flatten(state_bins)
        original_indices == Flatten(index_bins)
    IN IF Len(all_states) # Len(original_indices)
       THEN [called |-> TRUE, raised |-> TRUE, out |-> <<>>]
       ELSE LET indexed_states == Zip(original_indices, all_states)
                sorted == SortedByKey(indexed_states)
            IN [called |-> TRUE, raised |-> FALSE,
                out |-> [i \in 1..Len(sorted) |-> sorted[i][2]]]

\* the caller restores the order of the batches it has been given so far
ChunkRestoreOriginalOrder ==
    /\ ck_pc = "ready"
    /\ LET res == ChunkRestoreOriginalOrderOf(ck_batches)
       IN /\ ck_restored' = WithGiven(res, ck_batches)
          /\ ck_pc' = IF res.raised THEN "error" ELSE "restored"
          /\ ck_error' = IF res.raised THEN [type |-> "ValueError", index |-> 0]
                         ELSE ck_error
    /\ UNCHANGED <<ck_max_memory_scaler, index_bins, batched_states,
                   current_state_bin, ck_ret, ck_batches, in_vars, pr_vars, hs_vars, rn_vars,
                   st_vars>>

\* the lists of batches a caller may hand to restore_original_order: the
\* batches it was given, cut short or with the first of them twice
CallerBatches ==
    {SubSeq(ck_batches, 1, k) : k \in 0..Len(ck_batches)}
        \cup (IF ck_batches = <<>> THEN {} ELSE {Append(ck_batches, ck_batches[1])})

\* restore_original_order(batched_states) with any such list
ChunkRestoreAnyArgs ==
    /\ ck_pc = "ready"
    /\ \E batches \in CallerBatches :
          LET res == ChunkRestoreOriginalOrderOf(batches)
          IN /\ ck_restored' = WithGiven(res, batches)
             /\ ck_pc' = IF res.raised THEN "error" ELSE "restored"
             /\ ck_error' = IF res.raised THEN [type |-> "ValueError", index |-> 0]
                            ELSE ck_error
    /\ UNCHANGED <<ck_max_memory_scaler, index_bins, batched_states,
                   current_state_bin, ck_ret, ck_batches, in_vars, pr_vars, hs_vars, rn_vars,
                   st_vars>>

\* the caller's forward pass on the batch a HotswappingAutoBatcher handed out
\* (update_fn in the loop of optimize) raises out of memory: nothing between
\* the forward pass and the caller catches it
HsForwardOutOfMemory ==
    /\ hs_pc = "running"
    /\ hs_pc' = "error"
    /\ hs_error' = OutOfMemory
    /\ UNCHANGED <<states_iterator, max_memory_scaler, current_scalers, current_idx,
                   iterator_idx, completed_idx_og_order, hs_ret, hs_args, estimates,
                   all_completed, hs_restored, in_vars, pr_vars, ck_vars, rn_vars,
                   st_vars>>

\* the caller's forward pass on the batch a ChunkingAutoBatcher handed out
\* (update_fn in the loop of integrate) raises out of memory
ChunkForwardOutOfMemory ==
    /\ ck_pc = "ready"
    /\ ck_batches # <<>>
    /\ ~ck_ret.is_none
    /\ ck_pc' = "error"
    /\ ck_error' = [type |-> OutOfMemory, index |-> 0]
    /\ UNCHANGED <<ck_max_memory_scaler, index_bins, batched_states,
                   current_state_bin, ck_ret, ck_batches, ck_restored, in_vars,
                   pr_vars, hs_vars, rn_vars, st_vars>>

\* ------------------------------------------------------ state operations
\* A state with its atoms: positions and atomic_numbers per atom, batch the
\* segment id of each atom, cell one entry per system.
\* state.n_batches
NBatchesOf(state) == Len(state.cell)

\* the elements of seq at the positions where batch holds the segment id b
RECURSIVE AtomsOf(_, _, _)
AtomsOf(seq, batch, b) ==
    IF seq = <<>> THEN <<>>
    ELSE IF Head(batch) = b
    THEN <<Head(seq)>> \o AtomsOf(Tail(seq), Tail(batch), b)
    ELSE AtomsOf(Tail(seq), Tail(batch), b)

\* concatenate_states(state_list): atoms and systems laid out in input order,
\* each input's segment ids shifted by the number of systems before it
RECURSIVE ConcatenateLoop(_, _)
ConcatenateLoop(state_list, acc) ==
    IF state_list = <<>> THEN acc
    ELSE LET state == Head(state_list)
             offset == NBatchesOf(acc)
         IN ConcatenateLoop(
                Tail(state_list),
                [positions |-> acc.positions \o state.positions,
                 atomic_numbers |-> acc.atomic_numbers \o state.atomic_numbers,
                 batch |-> acc.batch \o [k \in 1..Len(state.batch) |->
                                            state.batch[k] + offset],
                 cell |-> acc.cell \o state.cell])

Concatenate(state_list) ==
    ConcatenateLoop(state_list, [positions |-> <<>>, atomic_numbers |-> <<>>,
                                 batch |-> <<>>, cell |-> <<>>])

\* split that leaves each system the segment id it had in the batch
SplitKeepsIds(state) ==
    [b \in 1..NBatchesOf(state) |->
        [positions |-> AtomsOf(state.positions, state.batch, b - 1),
         atomic_numbers |-> AtomsOf(state.atomic_numbers, state.batch, b - 1),
         batch |-> AtomsOf(state.batch, state.batch, b - 1),
         cell |-> <<state.cell[b]>>]]

\* state.split(): one single-system state per segment id, segment ids all 0
Split(state) ==
    [b \in 1..NBatchesOf(state) |->
        [positions |-> AtomsOf(state.positions, state.batch, b - 1),
         atomic_numbers |-> AtomsOf(state.atomic_numbers, state.batch, b - 1),
         batch |-> [k \in 1..Len(AtomsOf(state.batch, state.batch, b - 1)) |-> 0],
         cell |-> <<state.cell[b]>>]]

\* an index argument: kind is its python type; values the entries of an int
\* (one), a list or a tensor; start, stop and step of a slice are <<>> for
\* None and <<v>> for v
IntIndex(v) == [kind |-> "int", values |-> <<v>>, start |-> <<>>, stop |-> <<>>,
                step |-> <<>>]
SeqIndex(kind, values) == [kind |-> kind, values |-> values, start |-> <<>>,
                           stop |-> <<>>, step |-> <<>>]
SliceIndex(start, stop, step) == [kind |-> "slice", values |-> <<>>, start |-> start,
                                  stop |-> stop, step |-> step]

\* a slice bound as python resolves it for a sequence of n elements: a
\* negative bound counts from the end; the result is clamped to 0..n for a
\* positive step and to -1..n-1 for a negative one
SliceBound(bound, n, default, step) ==
    LET lowest == IF step < 0 THEN 0 - 1 ELSE 0
        highest == IF step < 0 THEN n - 1 ELSE n
    IN IF bound = <<>> THEN default
       ELSE IF bound[1] < 0
       THEN (IF bound[1] + n < lowest THEN lowest ELSE bound[1] + n)
       ELSE IF bound[1] > highest THEN highest ELSE bound[1]

\* range(start, stop, step) as a list, step non-zero
RECURSIVE PyRange(_, _, _)
PyRange(start, stop, step) ==
    IF (step > 0 /\ start >= stop) \/ (step < 0 /\ start <= stop) THEN <<>>
    ELSE <<start>> \o PyRange(start + step, stop, step)

\* the positions a slice selects of n systems, in the order it selects them:
\* range(*slice.indices(n)); start and stop default to 0 and n for a positive
\* step, to n-1 and -1 for a negative one
SliceIndices(idx, n_batches) ==
    LET step == IF idx.step = <<>> THEN 1 ELSE idx.step[1]
    IN PyRange(SliceBound(idx.start, n_batches,
                          IF step < 0 THEN n_batches - 1 ELSE 0, step),
               SliceBound(idx.stop, n_batches,
                          IF step < 0 THEN 0 - 1 ELSE n_batches, step),
               step)

\* index normalization that passes negative entries through
NormalizeKeepsNegative(idx, n_batches) ==
    IF idx.kind \in {"int", "list", "tensor"}
    THEN [raised |-> "", indices |-> idx.values]
    ELSE IF idx.kind = "slice"
    THEN [raised |-> "", indices |-> SliceIndices(idx, n_batches)]
    ELSE [raised |-> "TypeError", indices |-> <<>>]

\* _normalize_batch_indices(batch_indices, n_batches, device)
NormalizeBatchIndices(idx, n_batches) ==
    IF idx.kind \in {"int", "list", "tensor"}
    THEN [raised |-> "",
          indices |-> [k \in 1..Len(idx.values) |->
                          IF idx.values[k] < 0 THEN idx.values[k] + n_batches
                          ELSE idx.values[k]]]
    ELSE IF idx.kind = "slice"
    THEN [raised |-> "", indices |-> SliceIndices(idx, n_batches)]
    ELSE [raised |-> "TypeError", indices |-> <<>>]

\* concatenate_states(st_states)
ConcatenateCall ==
    /\ st_pc = "new"
    /\ st_states # <<>>
    /\ st_pc' = "concatenated"
    /\ st_concatenated' = Concatenate(st_states)
    /\ UNCHANGED <<st_states, st_split, st_n_batches, st_idx, st_indices, in_vars,
                   hs_vars, ck_vars, pr_vars, rn_vars>>

\* concatenated.split()
SplitCall ==
    /\ st_pc = "concatenated"
    /\ st_pc' = "split"
    /\ st_split' = Split(st_concatenated)
    /\ UNCHANGED <<st_states, st_concatenated, st_n_batches, st_idx, st_indices,
                   in_vars, hs_vars, ck_vars, pr_vars, rn_vars>>

\* _normalize_batch_indices(st_idx, st_n_batches, device)
NormalizeCall ==
    /\ st_pc = "new"
    /\ st_states = <<>>
    /\ st_pc' = "normalized"
    /\ st_indices' = NormalizeBatchIndices(st_idx, st_n_batches)
    /\ UNCHANGED <<st_states, st_concatenated, st_split, st_n_batches, st_idx,
                   in_vars, hs_vars, ck_vars, pr_vars, rn_vars>>

\* ---------------------------------------------------------------- runners
\* init_fn(state) of an integrator or optimizer: the state it builds has made
\* no update step
InitFn(state) ==
    [i \in 1..Len(state) |->
        [sys |-> state[i].sys, n_atoms |-> state[i].n_atoms, updates |-> 0]]

\* update_fn(state): one update step of every system of the batch
UpdateFn(state) == [i \in 1..Len(state) |-> [state[i] EXCEPT !.updates = @ + 1]]

\* for step in range(1, n + 1): state = update_fn(state)
RECURSIVE UpdateTimes(_, _)
UpdateTimes(state, n) == IF n = 0 THEN state ELSE UpdateTimes(UpdateFn(state), n - 1)

\* the property map of one system
PropsOf(system) == [props_of |-> system.sys]

\* trajectory_reporter.report(substate, 0, model=model): one property map per
\* system of the batch, in the order of the batch
Report(substate) == [i \in 1..Len(substate) |-> PropsOf(substate[i])]

\* one pass of the loop of static over the batch iterator, whose __next__
\* hands out the next bin with its indices
StaticBatch ==
    /\ rn_pc = "static"
    /\ ck_pc = "ready"
    /\ current_state_bin < Len(batched_states)
    /\ ChunkNextBatchCall(TRUE)
    /\ all_props' = all_props \o Report(ck_ret'.state)
    /\ final_states' = Append(final_states, ck_ret'.state)
    /\ UNCHANGED <<ck_pc, rn_pc, autobatcher, n_steps, max_steps, steps_between_swaps,
                   rn_step, n_updates, rn_state, rn_convergence_tensor, rn_result,
                   runner, swap_attempts, in_vars, pr_vars, hs_vars, st_vars>>

\* the batch iterator is exhausted: static reorders all_props and returns
StaticReturn ==
    /\ rn_pc = "static"
    /\ ck_pc = "ready"
    /\ current_state_bin >= Len(batched_states)
    /\ ChunkNextBatchCall(TRUE)
    /\ LET original_indices == Flatten(index_bins)
       IN rn_result' = [k \in 1..Len(original_indices) |->
                           PyIndex(all_props, original_indices[k])]
    /\ rn_pc' = "returned"
    /\ UNCHANGED <<ck_pc, autobatcher, n_steps, max_steps, steps_between_swaps,
                   rn_step, n_updates, rn_state, rn_convergence_tensor, final_states,
                   all_props, runner, swap_attempts, in_vars, pr_vars, hs_vars, st_vars>>

\* one pass of the loop of integrate over the batch iterator: n_steps update
\* steps on the batch handed out
IntegrateBatch ==
    /\ rn_pc = "integrate"
    /\ ck_pc = "ready"
    /\ current_state_bin < Len(batched_states)
    /\ ChunkNextBatchCall(TRUE)
    /\ final_states' = Append(final_states, UpdateTimes(ck_ret'.state, n_steps))
    /\ UNCHANGED <<ck_pc, rn_pc, autobatcher, n_steps, max_steps, steps_between_swaps,
                   rn_step, n_updates, rn_state, rn_convergence_tensor, all_props,
                   rn_result, runner, swap_attempts, in_vars, pr_vars, hs_vars, st_vars>>

\* integrate that concatenates final_states as the batches came
IntegrateReturnUnrestored ==
    /\ rn_pc = "integrate"
    /\ ck_pc = "ready"
    /\ current_state_bin >= Len(batched_states)
    /\ ChunkNextBatchCall(TRUE)
    /\ rn_pc' = "returned"
    /\ rn_result' = ConcatenateStates(final_states)
    /\ UNCHANGED <<ck_pc, autobatcher, n_steps, max_steps, steps_between_swaps,
                   rn_step, n_updates, rn_state, rn_convergence_tensor, final_states,
                   all_props, runner, swap_attempts, in_vars, pr_vars, hs_vars, st_vars>>

\* the batch iterator is exhausted: integrate restores the original order of
\* final_states and returns their concatenation
IntegrateReturn ==
    /\ rn_pc = "integrate"
    /\ ck_pc = "ready"
    /\ current_state_bin >= Len(batched_states)
    /\ ChunkNextBatchCall(TRUE)
    /\ LET reordered_states == ChunkRestoreOriginalOrderOf(final_states)
       IN IF reordered_states.raised
          THEN /\ rn_pc' = "error"
               /\ rn_result' = rn_result
          ELSE /\ rn_pc' = "returned"
               /\ rn_result' = ConcatenateStates(reordered_states.out)
    /\ UNCHANGED <<ck_pc, autobatcher, n_steps, max_steps, steps_between_swaps,
                   rn_step, n_updates, rn_state, rn_convergence_tensor, final_states,
                   all_props, runner, swap_attempts, in_vars, pr_vars, hs_vars, st_vars>>

\* state.n_atoms: the atoms of all systems of the state
NAtoms(state) == SumSeq([i \in 1..Len(state) |-> state[i].n_atoms])

\* max_attempts = max_steps // steps_between_swaps of src/torch_sim/runners.py
MaxAttempts == max_steps \div steps_between_swaps

\* init_fn, then configure_hot_swapping_autobatcher up to the constructor call.
\* autobatcher=False: max_memory_scaler = state.n_atoms + 1, under "n_atoms"
\* in src/torch_sim/runners.py and under the model's memory_scales_with in
\* src/torchsim/runners.py; autobatcher=True: None under the model's
\* memory_scales_with; an instance keeps its own; then step = 1
OptimizeConfigure ==
    /\ rn_pc = "optimize"
    /\ hs_pc = "off"
    /\ hs_pc' = "new"
    /\ arg_max_memory_scaler' = IF autobatcher = "False"
                                THEN NAtoms(ConcatenateStates(states)) + 1
                                ELSE IF autobatcher = "True" THEN 0
                                ELSE arg_max_memory_scaler
    /\ memory_scales_with' = IF autobatcher = "False" /\ runner = "torch_sim"
                             THEN "n_atoms"
                             ELSE memory_scales_with
    /\ rn_state' = ConcatenateStates(states)
    /\ rn_step' = 1
    /\ UNCHANGED <<states, number_density, states_iterator, max_memory_scaler,
                   current_scalers, current_idx, iterator_idx, completed_idx_og_order,
                   hs_ret, hs_args, estimates, all_completed, hs_restored, hs_error,
                   rn_pc, runner, autobatcher, n_steps, max_steps, steps_between_swaps,
                   n_updates, rn_convergence_tensor, final_states, all_props,
                   rn_result, swap_attempts, pr_vars, ck_vars, st_vars>>

\* The batcher the runners import (HotSwappingAutoBatcher with load_states,
\* return_indices and max_iterations) is not the HotswappingAutoBatcher of
\* autobatching.py; the runners set return_indices = True and unpack
\* (state, converged_states, batch_indices) from every call, the first included.
\* Its first batch: _first_batch, returning the indices of the batch as well.
LoadedFirstBatch(oom) ==
    LET first_state == Head(states_iterator)
        first_metric == CalculateMemoryScaler(first_state)
        scalers1 == current_scalers \o <<first_metric>>
        idx1 == current_idx \o <<0>>
        has_max_metric == max_memory_scaler # 0
        estimate1 == EstimateMaxMemoryScaler(<<first_metric>>, MaxAtomsToTry,
                                             oom[1], oom[2])
        budget1 == IF has_max_metric THEN max_memory_scaler
                   ELSE SafetyNum * estimate1
        r == GetNextStates(Tail(states_iterator), scalers1, budget1, iterator_idx + 1)
        scalers2 == scalers1 \o r.new_metrics
        estimate2 == EstimateMaxMemoryScaler(scalers2, MaxAtomsToTry, oom[3], oom[4])
        budget2 == IF has_max_metric THEN budget1 ELSE Fifths(estimate2)
        int_estimate == ~has_max_metric /\ memory_scales_with = "n_atoms"
    IN /\ completed_idx_og_order' = completed_idx_og_order
       /\ hs_args' = [is_none |-> TRUE, in_turn |-> TRUE, updated_state |-> <<>>,
                       convergence_tensor |-> <<>>]
       /\ UNCHANGED <<all_completed, hs_restored>>
       /\ IF int_estimate
          THEN /\ states_iterator' = Tail(states_iterator)
               /\ iterator_idx' = iterator_idx + 1
          ELSE /\ states_iterator' = r.iterator
               /\ iterator_idx' = r.iterator_idx
       /\ IF int_estimate
          THEN /\ current_scalers' = scalers1
               /\ current_idx' = idx1
               /\ max_memory_scaler' = Fifths(estimate1)
               /\ estimates' = Append(estimates, estimate1)
               /\ hs_pc' = "error"
               /\ hs_error' = "RuntimeError"
               /\ hs_ret' = hs_ret
          ELSE IF r.raised
          THEN /\ current_scalers' = scalers1
               /\ current_idx' = idx1
               /\ max_memory_scaler' = budget1
               /\ estimates' = IF has_max_metric THEN estimates
                                ELSE Append(estimates, estimate1)
               /\ hs_pc' = "error"
               /\ hs_error' = "ValueError"
               /\ hs_ret' = hs_ret
          ELSE /\ current_scalers' = scalers2
               /\ current_idx' = idx1 \o r.new_idx
               /\ max_memory_scaler' = budget2
               /\ estimates' = IF has_max_metric THEN estimates
                                ELSE estimates \o <<estimate1, estimate2>>
               /\ hs_pc' = "running"
               /\ hs_error' = hs_error
               /\ hs_ret' = [is_none |-> FALSE,
                             next_batch |-> ConcatenateStates(<<first_state>> \o r.new_states),
                             completed_states |-> <<>>,
                             has_indices |-> TRUE, indices |-> idx1 \o r.new_idx]

\* max_iterations of the batcher src/torch_sim/runners.py builds: a system that
\* has been through max_iterations swaps counts as converged at the next one
ForcedConvergence(convergence_tensor, attempts, max_iterations) ==
    [k \in 1..Len(convergence_tensor) |->
        convergence_tensor[k] \/ attempts[k] + 1 >= max_iterations]

\* the elements of seq at the positions whose flag is False
RECURSIVE StillRunning(_, _)
StillRunning(seq, convergence_tensor) ==
    IF seq = <<>> THEN <<>>
    ELSE IF Head(convergence_tensor)
    THEN StillRunning(Tail(seq), Tail(convergence_tensor))
    ELSE <<Head(seq)>> \o StillRunning(Tail(seq), Tail(convergence_tensor))

\* the flags the batcher acts on: the caller's, and under src/torch_sim/runners.py
\* those max_iterations forces
SwapFlags(convergence_tensor) ==
    IF runner = "torch_sim"
    THEN ForcedConvergence(convergence_tensor, swap_attempts, MaxAttempts)
    ELSE convergence_tensor

\* for _step in range(remaining): state = update_fn(state); step += 1;
\* if step > max_steps: break
RECURSIVE StepsBetweenSwaps(_, _)
StepsBetweenSwaps(acc, remaining) ==
    IF remaining = 0 THEN acc
    ELSE LET next == [state |-> UpdateFn(acc.state), step |-> acc.step + 1,
                      n_updates |-> acc.n_updates + 1]
         IN IF next.step > max_steps THEN next
            ELSE StepsBetweenSwaps(next, remaining - 1)

\* one pass of the while loop of optimize: next_batch(state, convergence_tensor)
\* (the first batch when convergence_tensor is None), then, unless it returned
\* None, steps_between_swaps update steps cut short when step exceeds
\* max_steps, then convergence_fn, whose answer is any tensor of flags. The
\* loop has no bound on step. Under src/torch_sim/runners.py max_iterations
\* ends every run; under src/torchsim/runners.py the passes that run update
\* steps are followed while step <= MaxStep, the passes that end the loop
\* always
OptimizeLoop ==
    /\ rn_pc = "optimize"
    /\ hs_pc \in {"unstarted", "running"}
    /\ IF rn_convergence_tensor = <<>>
       THEN /\ states_iterator # <<>>
            /\ IF max_memory_scaler # 0
               THEN LoadedFirstBatch(<<0, 0, 0, 0>>)
               ELSE \E oom \in [1..4 -> ProbeOutcomes(MaxAtomsToTry)] :
                        LoadedFirstBatch(oom)
       ELSE NextBatchCall(rn_state, SwapFlags(rn_convergence_tensor))
    /\ IF hs_pc' = "error"
       THEN /\ rn_pc' = "error"
            /\ UNCHANGED <<rn_state, rn_step, n_updates, rn_convergence_tensor,
                           swap_attempts>>
       ELSE IF hs_ret'.is_none
       THEN UNCHANGED <<rn_pc, rn_state, rn_step, n_updates, rn_convergence_tensor,
                        swap_attempts>>
       ELSE LET swap == StepsBetweenSwaps([state |-> hs_ret'.next_batch,
                                           step |-> rn_step, n_updates |-> n_updates],
                                          steps_between_swaps)
                stay == IF rn_convergence_tensor = <<>> THEN <<>>
                        ELSE StillRunning([k \in 1..Len(swap_attempts) |->
                                              swap_attempts[k] + 1],
                                          SwapFlags(rn_convergence_tensor))
            IN /\ runner = "torchsim" => rn_step <= MaxStep
               /\ rn_state' = swap.state
               /\ rn_step' = swap.step
               /\ n_updates' = swap.n_updates
               /\ rn_convergence_tensor' \in [1..NBatches(swap.state) -> BOOLEAN]
               /\ swap_attempts' = IF runner = "torch_sim"
                                   THEN [k \in 1..Len(current_idx') |->
                                            IF k <= Len(stay) THEN stay[k] ELSE 0]
                                   ELSE swap_attempts
               /\ rn_pc' = rn_pc
    /\ UNCHANGED <<runner, autobatcher, n_steps, max_steps, steps_between_swaps,
                   final_states, all_props, rn_result, in_vars, pr_vars, ck_vars,
                   st_vars>>

\* next_batch has returned None: optimize restores the original order of
\* all_converged_states and returns their concatenation
OptimizeReturn ==
    /\ rn_pc = "optimize"
    /\ hs_pc = "done"
    /\ LET final == HsRestoreOriginalOrderOf(all_completed)
       IN /\ hs_restored' = WithGiven(final, all_completed)
          /\ hs_pc' = IF final.raised THEN "error" ELSE "restored"
          /\ hs_error' = IF final.raised THEN "ValueError" ELSE hs_error
          /\ rn_pc' = IF final.raised THEN "error" ELSE "returned"
          /\ rn_result' = IF final.raised THEN rn_result ELSE ConcatenateStates(final.out)
    /\ UNCHANGED <<states_iterator, max_memory_scaler, current_scalers, current_idx,
                   iterator_idx, completed_idx_og_order, hs_ret, hs_args, estimates,
                   all_completed, autobatcher, n_steps, max_steps, steps_between_swaps,
                   rn_step, n_updates, rn_state, rn_convergence_tensor, final_states,
                   all_props, runner, swap_attempts, in_vars, pr_vars, ck_vars, st_vars>>

\* ------------------------------------------------------------ the inputs
\* the list of single-system states with the given atom counts
StatesOf(n_atoms) == [i \in 1..Len(n_atoms) |-> <<[sys |-> i - 1, n_atoms |-> n_atoms[i]]>>]

\* lists of 1..MaxSystems single-system states of 1..MaxAtoms atoms each
InputStates ==
    UNION {{StatesOf(f) : f \in [1..n -> 1..MaxAtoms]} : n \in 1..MaxSystems}

HotIdle ==
    /\ states_iterator = <<>>
    /\ max_memory_scaler = 0
    /\ current_scalers = <<>>
    /\ current_idx = <<>>
    /\ iterator_idx = 0
    /\ completed_idx_og_order = <<>>
    /\ hs_ret = NoReturn
    /\ hs_args = NoArgs
    /\ estimates = <<>>
    /\ all_completed = <<>>
    /\ hs_restored = NotRestored
    /\ hs_error = ""

\* no estimate_max_memory_scaler run is followed step by step
ProbeIdle ==
    /\ pr_max_atoms = 0
    /\ pr_fib = <<>>
    /\ pr_i = 0
    /\ pr_probed = <<>>
    /\ pr_oom = <<>>
    /\ pr_batch_sizes = <<>>
    /\ pr_result = 0
    /\ pr_error = ""

\* no state operation is followed
StateIdle ==
    /\ st_pc = "off"
    /\ st_states = <<>>
    /\ st_concatenated = <<>>
    /\ st_split = <<>>
    /\ st_n_batches = 0
    /\ st_idx = <<>>
    /\ st_indices = <<>>

\* no runner is followed
RunnerIdle ==
    /\ rn_pc = "off"
    /\ autobatcher = ""
    /\ n_steps = 0
    /\ max_steps = 0
    /\ steps_between_swaps = 0
    /\ rn_step = 0
    /\ n_updates = 0
    /\ rn_state = <<>>
    /\ rn_convergence_tensor = <<>>
    /\ final_states = <<>>
    /\ all_props = <<>>
    /\ rn_result = <<>>
    /\ runner = ""
    /\ swap_attempts = <<>>
    /\ StateIdle

ChunkIdle ==
    /\ ck_max_memory_scaler = 0
    /\ index_bins = <<>>
    /\ batched_states = <<>>
    /\ current_state_bin = 0
    /\ ck_ret = NoChunkReturn
    /\ ck_batches = <<>>
    /\ ck_restored = NotRestored
    /\ ck_error = NoError

\* a HotswappingAutoBatcher about to be constructed; without a budget under
\* either metric, with a budget under "n_atoms" (the budget given, the metric's
\* type plays no part)
InitHot ==
    /\ states \in InputStates
    /\ arg_max_memory_scaler \in 0..MaxBudget
    /\ memory_scales_with \in IF arg_max_memory_scaler = 0
                                 THEN {"n_atoms", "n_atoms_x_density"}
                                 ELSE {"n_atoms"}
    /\ number_density = 1
    /\ hs_pc = "new"
    /\ HotIdle
    /\ ck_pc = "off"
    /\ ChunkIdle
    /\ pr_pc = "off"
    /\ ProbeIdle
    /\ RunnerIdle

NextHot == HsConstruct \/ HsFirstBatch \/ HsNextBatch \/ HsRestoreOriginalOrder

SpecHot == InitHot /\ [][NextHot]_vars

\* a HotswappingAutoBatcher given a budget that every system of the queue fits
InitHotFits ==
    /\ InitHot
    /\ arg_max_memory_scaler # 0
    /\ \A i \in 1..Len(states) : CalculateMemoryScaler(states[i]) <= arg_max_memory_scaler

\* the caller's loop: it goes on calling next_batch, and the convergence
\* predicate goes on reporting converged systems while a batch is in flight
HsProgress == HsConstruct \/ HsFirstBatch \/ HsNextBatchConverged

SpecHotFair == InitHotFits /\ [][NextHot]_vars /\ WF_vars(HsProgress)

\* a ChunkingAutoBatcher about to be constructed; besides the bounded inputs,
\* the three systems of 8, 26 and 8 atoms with a budget of 30
InitChunk ==
    /\ \/ /\ states \in InputStates
          /\ arg_max_memory_scaler \in 0..MaxBudget
          /\ memory_scales_with = "n_atoms"
          /\ number_density = 1
       \/ /\ states = StatesOf(<<8, 26, 8>>)
          /\ arg_max_memory_scaler = 30
          /\ memory_scales_with = "n_atoms"
          /\ number_density = 1
    /\ ck_pc = "new"
    /\ ChunkIdle
    /\ hs_pc = "off"
    /\ HotIdle
    /\ pr_pc = "off"
    /\ ProbeIdle
    /\ RunnerIdle

NextChunk == ChunkConstruct \/ ChunkNextBatch \/ ChunkRestoreOriginalOrder

SpecChunk == InitChunk /\ [][NextChunk]_vars

\* estimate_max_memory_scaler about to be called on a list of states with a
\* ceiling of 1..MaxCeiling
InitProbe ==
    /\ states \in InputStates
    /\ arg_max_memory_scaler = 0
    /\ memory_scales_with = "n_atoms"
    /\ number_density = 1
    /\ pr_pc = "new"
    /\ pr_max_atoms \in 1..MaxCeiling
    /\ pr_fib = <<>>
    /\ pr_i = 0
    /\ pr_probed = <<>>
    /\ pr_oom = <<>>
    /\ pr_batch_sizes = <<>>
    /\ pr_result = 0
    /\ pr_error = ""
    /\ hs_pc = "off"
    /\ HotIdle
    /\ ck_pc = "off"
    /\ ChunkIdle
    /\ RunnerIdle

NextProbe ==
    \/ EstimateBegin
    \/ MeasureSucceeds
    \/ MeasureOutOfMemory
    \/ MeasureRaisesOther
    \/ ProbesExhausted

SpecProbe == InitProbe /\ [][NextProbe]_vars

\* the estimation probes, and both batchers (the hot-swapping one with a budget
\* given) with the forward passes the caller runs on the batches handed out
InitForward == InitProbe \/ (InitHot /\ arg_max_memory_scaler # 0) \/ InitChunk

NextForward ==
    \/ NextProbe
    \/ NextHot
    \/ HsForwardOutOfMemory
    \/ NextChunk
    \/ ChunkForwardOutOfMemory

SpecForward == InitForward /\ [][NextForward]_vars

\* both batchers, the hot-swapping one with a budget given, under a caller that
\* may call out of turn and with arguments that do not match what it was
\* given; a hot-swapping run is followed up to the outcome of its first
\* next_batch call out of turn
InitAnyArgs == (InitHot /\ arg_max_memory_scaler # 0) \/ InitChunk

\* the calls of a hot-swapping run made in turn, while all calls were
HsInTurn == hs_args.in_turn /\ NextHot

NextAnyArgs ==
    \/ HsInTurn
    \/ HsNextBatchAnyArgs
    \/ HsRestoreAnyArgs
    \/ NextChunk
    \/ ChunkRestoreAnyArgs

SpecAnyArgs == InitAnyArgs /\ [][NextAnyArgs]_vars

\* static or integrate about to configure its batch iterator: a
\* ChunkingAutoBatcher instance with a budget, or autobatcher=True (no budget);
\* integrate has run init_fn on the state
InitChunkRunners ==
    /\ rn_pc \in {"static", "integrate"}
    /\ states \in IF rn_pc = "static" THEN InputStates
                  ELSE {[i \in 1..Len(st) |-> InitFn(st[i])] : st \in InputStates}
    /\ arg_max_memory_scaler \in 0..MaxBudget
    /\ memory_scales_with = "n_atoms"
    /\ number_density = 1
    /\ n_steps \in IF rn_pc = "integrate" THEN 1..MaxNSteps ELSE {0}
    /\ autobatcher = "instance"
    /\ max_steps = 0
    /\ steps_between_swaps = 0
    /\ rn_step = 0
    /\ n_updates = 0
    /\ rn_state = <<>>
    /\ rn_convergence_tensor = <<>>
    /\ final_states = <<>>
    /\ all_props = <<>>
    /\ rn_result = <<>>
    /\ runner = ""
    /\ swap_attempts = <<>>
    /\ ck_pc = "new"
    /\ ChunkIdle
    /\ hs_pc = "off"
    /\ HotIdle
    /\ pr_pc = "off"
    /\ ProbeIdle
    /\ StateIdle

NextChunkRunners ==
    \/ ChunkConstruct
    \/ StaticBatch
    \/ StaticReturn
    \/ IntegrateBatch
    \/ IntegrateReturn

SpecChunkRunners == InitChunkRunners /\ [][NextChunkRunners]_vars

\* optimize about to configure its batcher, init_fn having run on the state:
\* lists of 1..MaxSystems single-system states of one atom or of MaxAtoms atoms
OptimizeInputStates ==
    UNION {{StatesOf(n_atoms) : n_atoms \in [1..n -> {1, MaxAtoms}]} : n \in 1..MaxSystems}

\* optimize of either module about to configure its batcher, init_fn having
\* run on the state: autobatcher=False, autobatcher=True, or a
\* HotSwappingAutoBatcher instance with the smallest or the largest budget; a
\* model (or instance) of either metric, for systems of number density 1 or,
\* with a batcher the runner builds, MaxDensity; the smallest and the largest
\* max_steps and steps_between_swaps
InitOptimize ==
    /\ rn_pc = "optimize"
    /\ runner \in {"torchsim", "torch_sim"}
    /\ states \in {[i \in 1..Len(st) |-> InitFn(st[i])] : st \in OptimizeInputStates}
    /\ autobatcher \in {"False", "True", "instance"}
    /\ arg_max_memory_scaler \in IF autobatcher = "instance" THEN {1, MaxBudget} ELSE {0}
    /\ memory_scales_with \in {"n_atoms", "n_atoms_x_density"}
    /\ number_density \in IF memory_scales_with = "n_atoms_x_density" /\ autobatcher # "instance"
                          THEN {1, MaxDensity}
                          ELSE {1}
    /\ max_steps \in {1, MaxStepsCeiling}
    /\ steps_between_swaps \in {1, MaxStepsBetweenSwaps}
    /\ n_steps = 0
    /\ rn_step = 0
    /\ n_updates = 0
    /\ rn_state = <<>>
    /\ rn_convergence_tensor = <<>>
    /\ final_states = <<>>
    /\ all_props = <<>>
    /\ rn_result = <<>>
    /\ swap_attempts = <<>>
    /\ hs_pc = "off"
    /\ HotIdle
    /\ ck_pc = "off"
    /\ ChunkIdle
    /\ pr_pc = "off"
    /\ ProbeIdle
    /\ StateIdle

NextOptimize == OptimizeConfigure \/ HsConstruct \/ OptimizeLoop \/ OptimizeReturn

SpecOptimize == InitOptimize /\ [][NextOptimize]_vars

\* the i-th state of a list handed to concatenate_states: n_batches systems of
\* n_atoms atoms each, every atom and every cell tagged with where it came from
TaggedState(i, n_batches, n_atoms) ==
    [positions |-> [k \in 1..(n_batches * n_atoms) |->
                       <<i, (k - 1) \div n_atoms, (k - 1) % n_atoms>>],
     atomic_numbers |-> [k \in 1..(n_batches * n_atoms) |-> n_atoms],
     batch |-> [k \in 1..(n_batches * n_atoms) |-> (k - 1) \div n_atoms],
     cell |-> [b \in 1..n_batches |-> <<i, b - 1>>]]

\* lists of 1..MaxSystems states of 1..MaxInputBatches systems of one atom or
\* of MaxAtoms atoms
StateLists ==
    UNION {{[i \in 1..n |-> TaggedState(i, f[i][1], f[i][2])] :
               f \in [1..n -> (1..MaxInputBatches) \X {1, MaxAtoms}]} :
           n \in 1..MaxSystems}

\* the bounds a slice may carry for n systems: None, or a value from two below
\* -n to two above n
SliceBounds(n) == {<<>>} \cup {<<v>> : v \in (0 - n - 2)..(n + 2)}

\* the index arguments for n systems: valid ints, lists and tensors of one or
\* two valid entries, slices of a positive or negative step up to
\* MaxSliceStep, and a tuple
IndexArguments(n) ==
    {IntIndex(v) : v \in (0 - n)..(n - 1)}
        \cup {SeqIndex(kind, <<v>>) : kind \in {"list", "tensor"}, v \in (0 - n)..(n - 1)}
        \cup {SeqIndex(kind, <<v, w>>) :
                 kind \in {"list", "tensor", "tuple"}, v, w \in (0 - n)..(n - 1)}
        \cup {SliceIndex(start, stop, step) :
                 start \in SliceBounds(n), stop \in SliceBounds(n),
                 step \in {<<>>} \cup {<<v>> : v \in ((0 - MaxSliceStep)..MaxSliceStep) \ {0}}}

\* a list of states about to be concatenated and split again, or an index
\* about to be normalized for a batch of 1..MaxSystems systems
InitState ==
    /\ st_pc = "new"
    /\ \/ /\ st_states \in StateLists
          /\ st_n_batches = 0
          /\ st_idx = <<>>
       \/ /\ st_states = <<>>
          /\ st_n_batches \in 1..MaxSystems
          /\ st_idx \in IndexArguments(st_n_batches)
    /\ st_concatenated = <<>>
    /\ st_split = <<>>
    /\ st_indices = <<>>
    /\ states = <<>>
    /\ arg_max_memory_scaler = 0
    /\ memory_scales_with = "n_atoms"
    /\ number_density = 1
    /\ hs_pc = "off"
    /\ HotIdle
    /\ ck_pc = "off"
    /\ ChunkIdle
    /\ pr_pc = "off"
    /\ ProbeIdle
    /\ rn_pc = "off"
    /\ autobatcher = ""
    /\ n_steps = 0
    /\ max_steps = 0
    /\ steps_between_swaps = 0
    /\ rn_step = 0
    /\ n_updates = 0
    /\ rn_state = <<>>
    /\ rn_convergence_tensor = <<>>
    /\ final_states = <<>>
    /\ all_props = <<>>
    /\ rn_result = <<>>
    /\ runner = ""
    /\ swap_attempts = <<>>

NextState == ConcatenateCall \/ SplitCall \/ NormalizeCall

SpecState == InitState /\ [][NextState]_vars

\* ---------------------------------------------------------------- claims
\* the number of positions of seq holding x
Count(seq, x) == Cardinality({k \in 1..Len(seq) : seq[k] = x})

\* C1: over a full hot-swapping run (first batch, then next_batch until it
\* returns None) every input system is returned in completed_states exactly
\* once, as many completed states as input systems are returned, and
\* restore_original_order of the completed states in the order returned is the
\* input list in its original order.
C1_HotswapConservation ==
    /\ hs_pc \in {"done", "restored"} =>
          /\ Len(all_completed) = Len(states)
          /\ \A i \in 1..Len(states) : Count(all_completed, states[i]) = 1
    /\ hs_restored.called => (~hs_restored.raised /\ hs_restored.out = states)

\* a full run of MaxSystems systems, restored, in whose last call at least two
\* systems converged together
C1_Witness ==
    /\ hs_pc = "restored"
    /\ Len(states) = MaxSystems
    /\ Len(hs_ret.completed_states) >= 2

\* C2: the batches of a ChunkingAutoBatcher, taken until next_batch returns
\* None and handed in that order to restore_original_order, give exactly one
\* state per input system, the i-th being the i-th input system.
C2_ChunkRestoresOrder ==
    (ck_restored.called /\ ck_ret.is_none) =>
        /\ ~ck_restored.raised
        /\ Len(ck_restored.out) = Len(states)
        /\ \A i \in 1..Len(states) : ck_restored.out[i] = states[i]

\* restored after all batches, the bins listing the indices out of input order
C2_Witness ==
    /\ ck_restored.called
    /\ ck_ret.is_none
    /\ Len(index_bins) >= 2
    /\ \E i \in 1..Len(states) : Flatten(index_bins)[i] # i - 1

\* every budgeted bin sums to at most the budget and the bins partition 0..n-1
ValidBins(bins, memory_scalers, budget) ==
    /\ \A i \in 1..Len(memory_scalers) : Count(Flatten(bins), i - 1) = 1
    /\ Len(Flatten(bins)) = Len(memory_scalers)
    /\ \A b \in 1..Len(bins) :
           SumSeq([k \in 1..Len(bins[b]) |-> memory_scalers[bins[b][k] + 1]]) <= budget

\* C3: when every system's metric is within the budget, the bins built by the
\* ChunkingAutoBatcher constructor partition the input indices 0..n-1 and no
\* bin's summed metric exceeds max_memory_scaler; the systems of 8, 26 and 8
\* atoms with budget 30 give exactly 2 bins.
C3_BinsValid ==
    (/\ ck_pc \notin {"off", "new"}
     /\ \A i \in 1..Len(states) : CalculateMemoryScaler(states[i]) <= ck_max_memory_scaler)
    => /\ ValidBins(index_bins, MemoryScalers(states), ck_max_memory_scaler)
       /\ (states = StatesOf(<<8, 26, 8>>) /\ ck_max_memory_scaler = 30)
              => Len(index_bins) = 2

\* the three systems of 8, 26 and 8 atoms packed under budget 30
C3_Witness ==
    /\ ck_pc = "ready"
    /\ states = StatesOf(<<8, 26, 8>>)
    /\ ck_max_memory_scaler = 30
    /\ Len(index_bins) = 2

\* C4: after the first batch and after every later next_batch call that
\* returns normally, the summed metric of the in-flight systems
\* (current_scalers) does not exceed the max_memory_scaler then in force.
C4_InFlightWithinBudget ==
    hs_pc = "running" => Fifths(SumSeq(current_scalers)) <= max_memory_scaler

\* C5: a queued system whose metric exceeds an explicitly given budget, the
\* first of the queue included, raises a ValueError when it is taken: no batch
\* returned to the caller holds such a system.
C5_OverBudgetRaises ==
    (arg_max_memory_scaler # 0 /\ hs_pc \in {"running", "done", "restored"}) =>
        \A i \in 1..Len(hs_ret.next_batch) :
            hs_ret.next_batch[i].n_atoms <= arg_max_memory_scaler

\* the largest metric of the input list
LargestMetric == MaxOf(Range(MemoryScalers(states)))

\* C6: a ChunkingAutoBatcher constructed with a max_metric budget
\* smaller than the largest single system's metric raises a ConfigurationError
\* naming that system's index, and builds no bins.
C6_AsStated ==
    (ck_pc \notin {"off", "new"} /\ arg_max_memory_scaler < LargestMetric) =>
        /\ ck_error.type = "ConfigurationError"
        /\ CalculateMemoryScaler(states[ck_error.index + 1]) = LargestMetric
        /\ index_bins = <<>>

\* C7: over a finite queue whose systems all fit the budget, with a
\* convergence predicate that goes on reporting converged systems, repeated
\* next_batch calls eventually return None; and never is the run left with no
\* system in flight while next_batch has not returned None.
C7_EventuallyNone ==
    /\ <>(hs_ret.is_none)
    /\ [](hs_pc = "running" => current_idx # <<>>)
    /\ [](hs_pc # "error")

\* None has been returned for MaxSystems systems that fit the budget one by
\* one but not all together
C7_Witness ==
    /\ hs_ret.is_none
    /\ Len(states) = MaxSystems
    /\ SumSeq(MemoryScalers(states)) > arg_max_memory_scaler

\* C8: next_batch returns None as the next batch exactly when, after evicting
\* and admitting, the queue is exhausted and nothing is in flight; otherwise
\* the batch returned holds exactly the in-flight systems.
C8_NoneIffDrained ==
    hs_pc \in {"running", "done", "restored"} =>
        /\ hs_ret.is_none <=> (states_iterator = <<>> /\ current_idx = <<>>)
        /\ ~hs_ret.is_none =>
              /\ NBatches(hs_ret.next_batch) = Len(current_idx)
              /\ \A j \in 1..Len(current_idx) :
                     hs_ret.next_batch[j] = states[current_idx[j] + 1][1]

\* a batch has been returned after an eviction, with systems still queued
C8_Witness ==
    /\ hs_pc = "running"
    /\ ~hs_ret.is_none
    /\ states_iterator # <<>>
    /\ completed_idx_og_order # <<>>

\* the elements of seq at the 0-based positions listed, in the order listed
Select(seq, positions) == [k \in 1..Len(positions) |-> seq[positions[k] + 1]]

\* a next_batch call past the first batch has returned normally
NextBatchReturned == hs_pc = "running" /\ hs_pc' \in {"running", "done"}

\* C9 as stated: the systems converged in one next_batch call are reported in
\* completed_states, and their original indices appended to
\* completed_idx_og_order, in the order of the True flags (ascending position).
C9_AsStated ==
    [][NextBatchReturned =>
        LET flagged == WhereTrue(hs_args'.convergence_tensor)
        IN /\ completed_idx_og_order' =
                  completed_idx_og_order \o Select(current_idx, flagged)
           /\ hs_ret'.completed_states = SplitState(Select(hs_ret.next_batch, flagged))]_vars

\* C9: the systems converged in one next_batch call are reported in
\* completed_states, and their original indices appended to
\* completed_idx_og_order, in the reverse of the order of the True flags
\* (descending in-flight position).
C9_DescendingOrder ==
    [][NextBatchReturned =>
        LET flagged == Reverse(WhereTrue(hs_args'.convergence_tensor))
        IN /\ completed_idx_og_order' =
                  completed_idx_og_order \o Select(current_idx, flagged)
           /\ hs_ret'.completed_states = SplitState(Select(hs_ret.next_batch, flagged))]_vars

\* a call in which two or more systems were flagged converged has returned
C9_Witness ==
    /\ hs_pc \in {"running", "done"}
    /\ Len(WhereTrue(hs_args.convergence_tensor)) >= 2
    /\ Len(hs_ret.completed_states) >= 2

\* C10: systems are admitted strictly in queue order: a call takes a prefix of
\* the queue and leaves the rest as it was, the system that did not fit first;
\* that system does not fit the budget left after the admissions; and the k-th
\* system taken carries original index k.
C10_QueueOrder ==
    [][(hs_pc \in {"unstarted", "running"} /\ hs_pc' \in {"running", "done"}) =>
        LET taken == iterator_idx' - iterator_idx
            kept == Len(current_idx') - taken
        IN /\ taken >= 0
           /\ states_iterator' = SubSeq(states_iterator, taken + 1, Len(states_iterator))
           /\ \A k \in 1..taken :
                  /\ current_idx'[kept + k] = iterator_idx + k - 1
                  /\ states_iterator[k] = states[current_idx'[kept + k] + 1]
           /\ (states_iterator' # <<>> /\ ~(hs_pc = "unstarted" /\ max_memory_scaler = 0)) =>
                  Fifths(SumSeq(current_scalers')
                         + CalculateMemoryScaler(Head(states_iterator'))) > max_memory_scaler'
       ]_vars

\* admission has stopped at a system that does not fit although a later
\* system of the queue would fit the budget left
C10_Witness ==
    /\ hs_pc = "running"
    /\ Len(states_iterator) >= 2
    /\ \E i \in 2..Len(states_iterator) :
           Fifths(SumSeq(current_scalers) + CalculateMemoryScaler(states_iterator[i]))
               <= max_memory_scaler

\* a next_batch(updated_state, convergence_tensor) call, neither argument None
NextBatchStep ==
    /\ hs_pc \in {"unstarted", "running"}
    /\ hs_restored' = hs_restored
    /\ ~hs_args'.is_none

\* the call has left the bookkeeping of the batcher as it was
BookkeepingUnchanged ==
    UNCHANGED <<states_iterator, max_memory_scaler, current_scalers, current_idx,
                iterator_idx, completed_idx_og_order>>

\* C11: a next_batch call whose number of convergence flags differs from the
\* number of in-flight systems (the length of current_idx) fails with an
\* AssertionError, whatever number of systems the state handed in holds, and
\* leaves the bookkeeping unchanged.
C11_FlagCountChecked ==
    [][(/\ hs_pc = "running"
        /\ NextBatchStep
        /\ Len(hs_args'.convergence_tensor) # Len(current_idx)) =>
           /\ hs_pc' = "error"
           /\ hs_error' = "AssertionError"
           /\ BookkeepingUnchanged]_vars

\* the errors next_batch raises for a call it refuses
PreconditionErrors == {"AssertionError", "ValueError"}

\* C12: next_batch called with a state and convergence flags before the first
\* batch has been produced fails with a precondition error and neither evicts
\* nor admits a system.
C12_BeforeFirstBatchFails ==
    [][(hs_pc = "unstarted" /\ NextBatchStep) =>
           /\ hs_pc' = "error"
           /\ hs_error' \in PreconditionErrors
           /\ BookkeepingUnchanged]_vars

\* a ChunkingAutoBatcher.next_batch call
ChunkNextBatchStep == ck_pc = "ready" /\ ck_restored' = ck_restored

\* C13: ChunkingAutoBatcher.next_batch hands out the bins in bin order, one
\* per call: the call made with the cursor at bin k returns the concatenation
\* of the k-th bin's systems (and, with return_indices, the k-th bin's original
\* indices) and moves the cursor by one; once every bin has been handed out it
\* returns None and changes nothing; so the caller has been given exactly as
\* many batches as the cursor says and the cursor never exceeds the number of
\* bins.
C13_BinOrder ==
    /\ [][ChunkNextBatchStep =>
            IF current_state_bin < Len(index_bins)
            THEN LET bin == index_bins[current_state_bin + 1]
                 IN /\ ~ck_ret'.is_none
                    /\ ck_ret'.state = ConcatenateStates(Select(states, bin))
                    /\ ck_ret'.with_indices => ck_ret'.indices = bin
                    /\ current_state_bin' = current_state_bin + 1
                    /\ ck_batches' = Append(ck_batches, ck_ret'.state)
            ELSE /\ ck_ret'.is_none
                 /\ UNCHANGED <<current_state_bin, ck_batches>>]_vars
    /\ [](/\ current_state_bin <= Len(index_bins)
          /\ Len(ck_batches) = current_state_bin)

\* None has been returned after two or more bins were handed out, the last of
\* them with its indices
C13_Witness ==
    /\ ck_pc = "ready"
    /\ ck_ret.is_none
    /\ ck_ret.with_indices
    /\ Len(index_bins) >= 2
    /\ Len(ck_batches) = Len(index_bins)

\* the number of systems of a list of batches
SystemCount(batches) == SumSeq([i \in 1..Len(batches) |-> NBatches(batches[i])])

\* C14: restore_original_order of either batcher raises a ValueError exactly
\* when the number of states it is given (counted after splitting the batches,
\* for the chunking batcher) differs from the number of original indices the
\* batcher has recorded; when it returns, it returns as many states as it was
\* given.
C14_RestoreCountChecked ==
    /\ hs_restored.called =>
          /\ hs_restored.raised <=>
                 Len(hs_restored.given) # Len(completed_idx_og_order)
          /\ hs_restored.raised =>
                 (hs_pc = "error" /\ hs_error = "ValueError" /\ hs_restored.out = <<>>)
          /\ ~hs_restored.raised => Len(hs_restored.out) = Len(hs_restored.given)
    /\ ck_restored.called =>
          /\ ck_restored.raised <=>
                 SystemCount(ck_restored.given) # Len(Flatten(index_bins))
          /\ ck_restored.raised =>
                 (ck_pc = "error" /\ ck_error.type = "ValueError" /\ ck_restored.out = <<>>)
          /\ ~ck_restored.raised =>
                 Len(ck_restored.out) = SystemCount(ck_restored.given)

\* the hot-swapping restore_original_order has raised for a list with one
\* state more than the indices recorded, two or more indices being recorded
C14_Witness ==
    /\ hs_restored.called
    /\ hs_restored.raised
    /\ Len(completed_idx_og_order) >= 2
    /\ Len(hs_restored.given) = Len(completed_idx_og_order) + 1

\* the forward passes of the r-th determine_max_batch_size run, in order
RunProbes(r) == SelectSeq(pr_probed, LAMBDA p : p.run = r)

\* those of them that did not raise
Successes(r) == SelectSeq(RunProbes(r), LAMBDA p : p.outcome = "ok")

\* the k-th number of the sequence 1, 2, 3, 5, 8, 13, ...
RECURSIVE FibNumber(_)
FibNumber(k) == IF k <= 2 THEN k ELSE FibNumber(k - 1) + FibNumber(k - 2)

\* C15: determine_max_batch_size probes the replica counts 1, 2, 3, 5, 8, ...
\* in increasing order, no probe follows one that raised out of memory, and a
\* run ended by an out-of-memory probe returns the second-to-last of the
\* counts probed successfully.
C15_SecondToLastSuccess ==
    \A r \in 1..2 :
        LET probes == RunProbes(r)
            ok == Successes(r)
        IN /\ \A k \in 1..Len(probes) : probes[k].n_batches = FibNumber(k)
           /\ \A k \in 1..(Len(probes) - 1) : probes[k].outcome = "ok"
           /\ (/\ r <= Len(pr_batch_sizes)
               /\ probes[Len(probes)].outcome = OutOfMemory) =>
                  /\ Len(ok) >= 2
                  /\ pr_batch_sizes[r] = ok[Len(ok) - 1].n_batches

\* C16: no forward pass of determine_max_batch_size replicates the state more
\* than max_atoms times.
C16_ProbesWithinCeiling ==
    \A k \in 1..Len(pr_probed) : pr_probed[k].n_batches <= pr_max_atoms

\* C17: a determine_max_batch_size run none of whose probes raised returns,
\* for max_atoms >= 2, the largest number of the sequence 1, 2, 3, 5, 8, ...
\* strictly smaller than max_atoms; 8 for max_atoms = 10.
C17_LargestFibBelowCeiling ==
    \A r \in 1..Len(pr_batch_sizes) :
        (pr_max_atoms >= 2 /\ Len(Successes(r)) = Len(RunProbes(r))) =>
            /\ \E k \in 1..pr_max_atoms :
                   /\ FibNumber(k) = pr_batch_sizes[r]
                   /\ FibNumber(k) < pr_max_atoms
                   /\ FibNumber(k + 1) >= pr_max_atoms
            /\ (pr_max_atoms = 10 => pr_batch_sizes[r] = 8)

\* both runs under a ceiling of 10 have returned 8, no probe having raised
C17_Witness ==
    /\ pr_pc = "returned"
    /\ pr_max_atoms = 10
    /\ pr_batch_sizes = <<8, 8>>
    /\ \A k \in 1..Len(pr_probed) : pr_probed[k].outcome = "ok"

\* C18: an out-of-memory error of a probe ends its search with a batch size
\* returned; any other error of a probe leaves estimate_max_memory_scaler as
\* it was raised, with no value returned; an out-of-memory error of the
\* caller's forward pass on a batch handed out by either batcher ends the run
\* with that error, the batcher neither catching it nor handing out a batch
\* again.
C18_OnlyProbeOutOfMemoryHandled ==
    /\ [](/\ \A k \in 1..Len(pr_probed) :
                LET p == pr_probed[k]
                IN /\ p.outcome = OutOfMemory =>
                          (Len(pr_batch_sizes) >= p.run /\ pr_error # OutOfMemory)
                   /\ p.outcome \in OtherErrors =>
                          /\ k = Len(pr_probed)
                          /\ pr_pc = "raised"
                          /\ pr_error = p.outcome
                          /\ Len(pr_batch_sizes) < p.run
                          /\ pr_result = 0
          /\ pr_pc = "raised" => pr_error \in OtherErrors
          /\ hs_error = OutOfMemory => hs_pc = "error"
          /\ ck_error.type = OutOfMemory => ck_pc = "error")
    /\ [][/\ hs_error' = OutOfMemory =>
                 UNCHANGED <<states_iterator, max_memory_scaler, current_scalers,
                             current_idx, iterator_idx, completed_idx_og_order, hs_ret>>
          /\ ck_error'.type = OutOfMemory =>
                 UNCHANGED <<index_bins, batched_states, current_state_bin, ck_ret>>]_vars

\* the first run was ended by an out-of-memory probe, and a probe of the second
\* run has raised another error
C18_Witness ==
    /\ pr_pc = "raised"
    /\ Len(pr_batch_sizes) = 1
    /\ \E k \in 1..Len(pr_probed) : pr_probed[k].outcome = OutOfMemory
    /\ pr_probed[Len(pr_probed)].n_batches >= 2

\* C19: estimate_max_memory_scaler runs determine_max_batch_size on two
\* states only, first a state of smallest metric and then a state of largest
\* metric, and returns the smaller of the two products of the batch size found
\* and the metric.
C19_TwoProbedSystems ==
    LET metric_values == MemoryScalers(states)
        lo == MinOf(Range(metric_values))
        hi == MaxOf(Range(metric_values))
    IN /\ \A k \in 1..Len(pr_probed) :
              LET p == pr_probed[k]
              IN /\ p.run \in {1, 2}
                 /\ metric_values[p.state + 1] = IF p.run = 1 THEN lo ELSE hi
       /\ Cardinality({pr_probed[k].state : k \in 1..Len(pr_probed)}) <= 2
       /\ pr_pc = "returned" =>
              /\ Len(pr_batch_sizes) = 2
              /\ RunProbes(1) # <<>> /\ RunProbes(2) # <<>>
              /\ pr_result = MinOf({pr_batch_sizes[1] * lo, pr_batch_sizes[2] * hi})

\* the estimate has been returned for three states of which the first has
\* neither the smallest nor the largest metric, the product of the largest
\* metric being the smaller one
C19_Witness ==
    LET metric_values == MemoryScalers(states)
        lo == MinOf(Range(metric_values))
        hi == MaxOf(Range(metric_values))
    IN /\ pr_pc = "returned"
       /\ Len(states) = 3
       /\ lo < metric_values[1] /\ metric_values[1] < hi
       /\ pr_batch_sizes[2] * hi < pr_batch_sizes[1] * lo
       /\ pr_result = pr_batch_sizes[2] * hi

\* C20: a HotswappingAutoBatcher given no budget admits, in the first batch
\* and in every later next_batch call, under 0.8 times a value returned by
\* estimate_max_memory_scaler; one given a budget uses that budget unchanged
\* and never calls estimate_max_memory_scaler.
C20_SafetyFactorApplied ==
    hs_pc \in {"running", "done", "restored"} =>
        IF arg_max_memory_scaler = 0
        THEN \E k \in 1..Len(estimates) : max_memory_scaler = SafetyNum * estimates[k]
        ELSE max_memory_scaler = Fifths(arg_max_memory_scaler) /\ estimates = <<>>


\* the 0-based positions of the in-flight list that are not among those flagged
KeptPositions(n, flagged) ==
    SelectSeq([i \in 1..n |-> i - 1], LAMBDA q : q \notin Range(flagged))

\* a next_batch call, the first one included, has returned normally
AnyNextBatchReturned ==
    /\ hs_pc \in {"unstarted", "running"}
    /\ hs_pc' \in {"running", "done"}

\* C27: across every next_batch call the in-flight systems that were not
\* evicted keep their relative order in current_idx and current_scalers, the
\* newly admitted systems are appended after them in queue order, the batch
\* returned lays its systems out in the order of current_idx, and the indices
\* returned (return_indices=True) are current_idx.
C27_InFlightOrderKept ==
    [][AnyNextBatchReturned =>
        LET flagged == IF hs_pc = "unstarted" THEN <<>>
                       ELSE WhereTrue(hs_args'.convergence_tensor)
            kept == KeptPositions(Len(current_idx), flagged)
            taken == iterator_idx' - iterator_idx
        IN /\ current_idx' = Select(current_idx, kept)
                                 \o [k \in 1..taken |-> iterator_idx + k - 1]
           /\ current_scalers' = Select(current_scalers, kept)
                                 \o [k \in 1..taken |->
                                        CalculateMemoryScaler(states[iterator_idx + k])]
           /\ ~hs_ret'.is_none =>
                  hs_ret'.next_batch = [j \in 1..Len(current_idx') |->
                                           states[current_idx'[j] + 1][1]]
           /\ hs_ret'.has_indices
           /\ hs_ret'.indices = current_idx']_vars

\* C28: a determine_max_batch_size run ended by an out-of-memory probe, the
\* first (1 replica) or the second (2 replicas) included, returns a value
\* smaller than the replica count of that probe.
C28_BelowOutOfMemoryCount ==
    \A r \in 1..Len(pr_batch_sizes) :
        LET probes == RunProbes(r)
        IN (probes # <<>> /\ probes[Len(probes)].outcome = OutOfMemory) =>
               pr_batch_sizes[r] < probes[Len(probes)].n_batches

\* no value occurs twice in the list
NoDuplicates(seq) == \A i, j \in 1..Len(seq) : seq[i] = seq[j] => i = j

\* C29: in every state of a hot-swapping batcher reached through calls that
\* returned normally, current_idx and current_scalers have the same length,
\* current_idx is strictly increasing, no original index occurs twice in
\* current_idx or in completed_idx_og_order nor in both, and iterator_idx is
\* len(current_idx) + len(completed_idx_og_order); the completed list only
\* grows by appends.
C29_BookkeepingInvariant ==
    /\ [](hs_pc \in {"unstarted", "running", "done", "restored"} =>
            /\ Len(current_idx) = Len(current_scalers)
            /\ \A i \in 1..(Len(current_idx) - 1) : current_idx[i] < current_idx[i + 1]
            /\ NoDuplicates(current_idx \o completed_idx_og_order)
            /\ iterator_idx = Len(current_idx) + Len(completed_idx_og_order))
    /\ [][hs_pc' \in {"unstarted", "running", "done", "restored"} =>
            /\ Len(completed_idx_og_order') >= Len(completed_idx_og_order)
            /\ SubSeq(completed_idx_og_order', 1, Len(completed_idx_og_order))
                   = completed_idx_og_order]_vars

\* a batch is in flight whose systems are not neighbours in the input, a system
\* between them having completed and been replaced from the queue
C29_Witness ==
    /\ hs_pc = "running"
    /\ completed_idx_og_order # <<>>
    /\ \E i \in 1..(Len(current_idx) - 1) : current_idx[i + 1] > current_idx[i] + 1
    /\ hs_ret.indices = current_idx

\* a next_batch call, the first one included, has raised the ValueError of
\* _get_next_states
NextBatchRaisedValueError ==
    /\ hs_pc \in {"unstarted", "running"}
    /\ hs_pc' = "error"
    /\ hs_error' = "ValueError"
    /\ hs_restored' = hs_restored

\* C30: a next_batch call that raises a ValueError for a queued system over
\* the budget leaves the batcher as it was before the call: no system taken
\* from the queue is lost, iterator_idx is still the number of systems in
\* flight or completed, and no system flagged converged has left the
\* bookkeeping without being returned.
C30_ValueErrorLeavesBatcher ==
    [][NextBatchRaisedValueError =>
          /\ BookkeepingUnchanged
          /\ iterator_idx' = Len(current_idx') + Len(completed_idx_og_order')
          /\ Len(states_iterator') + iterator_idx' = Len(states)
          /\ Len(all_completed') = Len(completed_idx_og_order')]_vars

\* C21: a static run with a ChunkingAutoBatcher returns a list whose i-th
\* element is the property map of the i-th input system, whatever order the
\* bins list the original indices in.
C21_StaticInputOrder ==
    (rn_pc = "returned" /\ n_steps = 0 /\ ck_pc = "ready") =>
        /\ Len(rn_result) = Len(states)
        /\ \A i \in 1..Len(states) : rn_result[i] = PropsOf(states[i][1])

\* C22: an integrate run with a ChunkingAutoBatcher returns one state whose
\* i-th system is the i-th input system advanced by exactly n_steps update
\* steps, whatever bins the systems were packed into.
C22_IntegrateInputOrder ==
    (rn_pc = "returned" /\ n_steps > 0 /\ ck_pc = "ready") =>
        /\ NBatches(rn_result) = Len(states)
        /\ \A i \in 1..Len(states) :
               rn_result[i] = [states[i][1] EXCEPT !.updates = n_steps]

\* integrate has returned after a run of several bins that list the original
\* indices in an order that is neither the input order nor its own inverse
C22_Witness ==
    /\ rn_pc = "returned"
    /\ n_steps = MaxNSteps
    /\ Len(index_bins) >= 2
    /\ LET original_indices == Flatten(index_bins)
       IN \E k \in 1..Len(original_indices) :
              original_indices[original_indices[k] + 1] # k - 1

\* C23: optimize makes at most max_steps optimizer update steps in total over
\* the whole run, whatever the systems' convergence, systems that never
\* converge included (the bound on the count; a run that exceeds it refutes
\* the claim whether or not it ends).
C23_AtMostMaxSteps ==
    rn_pc \in {"optimize", "returned", "error"} /\ max_steps > 0 => n_updates <= max_steps

\* the original indices in flight once the flagged positions have left
Unflagged(idx, convergence_tensor) ==
    Select(idx, KeptPositions(Len(idx), WhereTrue(convergence_tensor)))

\* C24: with autobatcher=False the batcher optimize configures has the budget
\* n_atoms + 1 under the n_atoms metric and never leaves a system waiting in
\* the queue: the first batch holds every system of the input state, and every
\* swap still removes the systems flagged converged from the batch.
C24_NoBatchingButEviction ==
    /\ []((autobatcher = "False" /\ rn_pc \in {"optimize", "returned", "error"}) =>
            /\ hs_pc # "error"
            /\ hs_pc \in {"unstarted", "running", "done", "restored"} =>
                   /\ max_memory_scaler = Fifths(NAtoms(ConcatenateStates(states)) + 1)
                   /\ memory_scales_with = "n_atoms"
            /\ hs_pc \in {"running", "done", "restored"} => states_iterator = <<>>)
    /\ [][(autobatcher = "False" /\ hs_pc = "unstarted" /\ hs_pc' # "unstarted") =>
            /\ hs_pc' = "running"
            /\ current_idx' = [i \in 1..Len(states) |-> i - 1]
            /\ hs_ret'.next_batch = ConcatenateStates(states)]_vars
    /\ [][(autobatcher = "False" /\ hs_pc = "running" /\ hs_pc' # "restored") =>
            /\ current_idx' = Unflagged(current_idx, hs_args'.convergence_tensor)
            /\ NBatches(hs_ret'.next_batch) = Len(current_idx')
            /\ Len(hs_ret'.completed_states) = Len(current_idx) - Len(current_idx')]_vars

\* the number of systems of the states before position i of the list
SystemsBefore(state_list, i) ==
    SumSeq([j \in 1..(i - 1) |-> NBatchesOf(state_list[j])])

\* C25: splitting the concatenation of a list of systems yields states equal
\* to the inputs position by position, one system each with segment ids all
\* 0; and the concatenation numbers its segment ids contiguously 0..n-1 in
\* input order with no gaps.
C25_SplitConcatenateRoundTrip ==
    /\ st_pc \in {"concatenated", "split"} =>
           LET n == SystemsBefore(st_states, Len(st_states) + 1)
               batch == st_concatenated.batch
           IN /\ NBatchesOf(st_concatenated) = n
              /\ Range(batch) = 0..(n - 1)
              /\ \A k \in 1..(Len(batch) - 1) : batch[k] <= batch[k + 1]
              /\ \A k \in 1..Len(batch) :
                     LET origin == st_concatenated.positions[k]
                     IN batch[k] = SystemsBefore(st_states, origin[1]) + origin[2]
    /\ st_pc = "split" =>
           /\ Len(st_split) = NBatchesOf(st_concatenated)
           /\ \A b \in 1..Len(st_split) :
                  /\ NBatchesOf(st_split[b]) = 1
                  /\ \A k \in 1..Len(st_split[b].batch) : st_split[b].batch[k] = 0
                  /\ Len(st_split[b].positions) = Len(st_split[b].batch)
           /\ (\A i \in 1..Len(st_states) : NBatchesOf(st_states[i]) = 1) =>
                  st_split = st_states
           /\ \A i \in 1..Len(st_states) :
                  \A j \in 1..NBatchesOf(st_states[i]) :
                      LET part == st_split[SystemsBefore(st_states, i) + j]
                      IN /\ part.cell = <<st_states[i].cell[j]>>
                         /\ part.positions =
                                AtomsOf(st_states[i].positions, st_states[i].batch, j - 1)

\* a list of several one-system states of different sizes has been
\* concatenated and split again
C25_Witness ==
    /\ st_pc = "split"
    /\ Len(st_states) >= 3
    /\ \A i \in 1..Len(st_states) : NBatchesOf(st_states[i]) = 1
    /\ Len(st_states[1].positions) # Len(st_states[2].positions)

\* a state of two systems followed by a state of one system has been
\* concatenated: the last system carries segment id 2
C25_NumberingWitness ==
    /\ st_pc = "concatenated"
    /\ Len(st_states) = 2
    /\ NBatchesOf(st_states[1]) = 2
    /\ NBatchesOf(st_states[2]) = 1
    /\ st_concatenated.batch[Len(st_concatenated.batch)] = 2

\* the position of a slice bound in a sequence of n elements, between lowest
\* and highest
ClampedBound(v, n, lowest, highest) ==
    LET from_end == IF v < 0 THEN v + n ELSE v
    IN IF from_end < lowest THEN lowest
       ELSE IF from_end > highest THEN highest ELSE from_end

\* what python indexing selects of n systems for the index normalized: the
\* entries of an int, list or tensor counted from the end when negative; of a
\* slice the positions from start (inclusive) towards stop (exclusive) in
\* strides of step, ascending for a positive and descending for a negative
\* step; -1 gives [n-1] and [0, -1] gives [0, n-1]; a tuple raises a TypeError
NormalizedAsPythonIndexes ==
    LET n == st_n_batches
        out == st_indices.indices
    IN /\ st_idx.kind = "tuple" <=> st_indices.raised = "TypeError"
       /\ st_indices.raised \in {"", "TypeError"}
       /\ \A k \in 1..Len(out) : out[k] \in 0..(n - 1)
       /\ st_idx.kind \in {"int", "list", "tensor"} =>
              /\ Len(out) = Len(st_idx.values)
              /\ \A k \in 1..Len(out) : (out[k] - st_idx.values[k]) % n = 0
       /\ st_idx.kind = "slice" =>
              LET step == IF st_idx.step = <<>> THEN 1 ELSE st_idx.step[1]
              IN IF step > 0
                 THEN LET lo == IF st_idx.start = <<>> THEN 0
                                ELSE ClampedBound(st_idx.start[1], n, 0, n)
                          hi == IF st_idx.stop = <<>> THEN n
                                ELSE ClampedBound(st_idx.stop[1], n, 0, n)
                      IN /\ Range(out) = {i \in 0..(n - 1) :
                                             i >= lo /\ i < hi /\ (i - lo) % step = 0}
                         /\ \A k \in 1..(Len(out) - 1) : out[k] < out[k + 1]
                 ELSE LET hi == IF st_idx.start = <<>> THEN n - 1
                                ELSE ClampedBound(st_idx.start[1], n, 0 - 1, n - 1)
                          lo == IF st_idx.stop = <<>> THEN 0 - 1
                                ELSE ClampedBound(st_idx.stop[1], n, 0 - 1, n - 1)
                      IN /\ Range(out) = {i \in 0..(n - 1) :
                                             i <= hi /\ i > lo /\ (hi - i) % (0 - step) = 0}
                         /\ \A k \in 1..(Len(out) - 1) : out[k] > out[k + 1]
       /\ st_idx = IntIndex(-1) => out = <<n - 1>>
       /\ st_idx = SeqIndex("list", <<0, -1>>) => out = <<0, n - 1>>

\* C26 as stated: for a batch of n systems the index normalization maps an
\* integer, a list, a tensor or a slice to the non-negative system indices
\* python indexing selects: -1 gives [n-1], slice(-2, None) gives [n-2, n-1]
\* for every n, [0, -1] gives [0, n-1]; a tuple raises a TypeError.
C26_AsStated ==
    st_pc = "normalized" =>
        /\ NormalizedAsPythonIndexes
        /\ st_idx = SliceIndex(<<-2>>, <<>>, <<>>) =>
               st_indices.indices = <<st_n_batches - 2, st_n_batches - 1>>

\* C26: for a batch of n systems the index normalization maps an integer, a
\* list, a tensor or a slice of either direction to the non-negative system
\* indices python indexing selects: -1 gives [n-1], [0, -1] gives [0, n-1],
\* slice(-2, None) gives [n-2, n-1] when n >= 2 and [0] when n = 1; a tuple
\* raises a TypeError.
C26_IndexNormalization ==
    st_pc = "normalized" =>
        /\ NormalizedAsPythonIndexes
        /\ st_idx = SliceIndex(<<-2>>, <<>>, <<>>) =>
               st_indices.indices = IF st_n_batches >= 2
                                    THEN <<st_n_batches - 2, st_n_batches - 1>>
                                    ELSE <<0>>

\* slice(-2, None) has been normalized for a batch of more than two systems
C26_Witness ==
    /\ st_pc = "normalized"
    /\ st_n_batches > 2
    /\ st_idx = SliceIndex(<<-2>>, <<>>, <<>>)
    /\ st_indices.indices = <<st_n_batches - 2, st_n_batches - 1>>

=============================================================================
